---------------------------- MODULE Spec2Model ----------------------------
(***************************************************************************)
(* RoleRadar: the storage layer (src/storage/db.py) and the Netflix        *)
(* connector's paginated fetch (src/connectors/netflix.py).                *)
(*                                                                         *)
(* Calendar dates are ISO strings in the code and compare as text in the   *)
(* date order; they are day numbers 1..MaxDay here.  Titles are compared   *)
(* by ORDER BY title (BINARY collation); a title is its rank in that       *)
(* order.  A table is the sequence of its rows in rowid order: an INSERT   *)
(* appends, an ON CONFLICT ... DO UPDATE rewrites the row where it is.     *)
(***************************************************************************)
EXTENDS Integers, Sequences, FiniteSets, TLC

(* ------------------------------ bounds --------------------------------- *)
MaxDay == 2
MaxBatch == 2
MaxPageLen == 2      \* records in one page of an arbitrary server
MaxAnyPages == 3     \* max_pages of a fetch from an arbitrary server
MaxPagesArg == 6     \* max_pages of a fetch from a paging or a stuck server
MaxCatalogue == 5    \* postings a paging server holds
MaxCap == 2          \* records a paging server returns per request
MaxRetriesArg == 4   \* max_retries of a connector
MaxScrape == 1       \* Jobs in the list a connector returns to the dashboard
MaxCalls == 4        \* connector invocations of the dashboard

(* ------------------------- program constants --------------------------- *)
SignatureIds == 10   \* n=min(10, len(raw_jobs))
StuckRepeats == 3    \* repeat_sig_count >= 3
DefaultMaxRetries == 3   \* max_retries: int = 3
DefaultBackoff == 8      \* backoff_s: float = 0.8, in tenths of a second

(* ------------------------------ domains -------------------------------- *)
JobIds == {"j1", "j2"}
Companies == {"MathWorks", "Netflix"}
Titles == {1, 2}
Urls == {"u1"}
NoLoc == "NULL"
Locations == {NoLoc, "Natick, MA", "Remote"}
Days == 1..MaxDay
RunValues == {<<1, 0, 0>>, <<2, 1, 0>>, <<1, 1, 1>>, <<2, 0, 1>>}

(* Netflix: a native id and a title are strings; "" is a missing (falsy) one. *)
RawIds == {"101", "102"}
RawJobs == {[id |-> "101", title |-> "A"], [id |-> "101", title |-> "B"],
            [id |-> "102", title |-> "A"], [id |-> "102", title |-> ""]}
RawJobsStuck == RawJobs \cup {[id |-> "", title |-> "A"]}
CatalogueIds == <<"c1", "c2", "c3", "c4", "c5", "c6">>
DefaultPageSize == 100
PageSizes == {1, DefaultPageSize}
NoCount == [kind |-> "none", n |-> 0]
Counts == {NoCount, [kind |-> "int", n |-> 1], [kind |-> "str", n |-> 2]}
NoTotal == [isInt |-> FALSE, n |-> 0]
NoSig == <<>>
NoJob == [job_id |-> "None"]

VARIABLES
    server,     \* Netflix: the server the call talks to
    max_pages,  \* fetch_jobs argument
    page_size,  \* fetch_jobs argument
    nfpc,       \* "loop" inside `while True`, "done" after return, "raised", "off"
    start, total, page, seen_ids, repeat_sig_count, last_sig, postings,
    result,     \* the list fetch_jobs returned
    nreq,       \* history: page requests issued
    lastReqStart, \* history: `start` of the latest request
    sumBefore,  \* history: records returned by the responses before the latest request
    sumAll,     \* history: records returned by all responses
    lastLen,    \* history: records of the latest response (-1: none yet)
    firstTitle, \* history: native id -> title of its first parsable record in a parsed page
    today,      \* date.today() of the process
    jobs,       \* table jobs, rows in rowid order
    runs,       \* table runs, rows in rowid order
    pc,         \* "idle", or "upsert_jobs" while a call is inside its for loop
    stmts,      \* upsert_jobs: Jobs of the batch executed so far
    callIds,    \* upsert_jobs: job_ids of the batch executed so far
    lastOp,     \* the storage statement executed last
    firstUp,    \* history: job_id an upsert_jobs held -> day of the first such call
    lastUp,     \* history: job_id an upsert_jobs held -> day of the latest such call
    upsToday,   \* history: job_id -> calls of upsert_jobs today that held it (2 = two or more)
    max_retries, \* NetflixConnector.max_retries
    backoff_s,  \* NetflixConnector.backoff_s, in tenths of a second
    rtpc,       \* _request_with_retries: "request", "returned", "raised", "off"
    attempt,    \* the loop variable of _request_with_retries
    last_err,   \* the exception caught last
    rtret,      \* what the call returned or raised
    sleeps,     \* history: the time.sleep() calls, in tenths of a second
    nAttempts,  \* history: session.request() calls made
    enabled,    \* app.py: set(cfg.enabled_companies or [])
    schema,     \* the tables the database file holds
    apc,        \* app.py: "closed", "ready" (at the button), "idle" (rendered),
                \* "failed" (the script stopped on an exception), or inside the
                \* run update: "company", "upsert", "new_today", "record"
    co,         \* run update: index in UpdateOrder of the company block reached
    xx_jobs,    \* run update: the list the connector returned (mw_jobs, ..., nf_jobs)
    xx_new,     \* run update: the get_new_today result (mw_new, ..., nf_new)
    trace,      \* history: the calls of the latest run update, in order
    ncalls,     \* history: connector invocations made
    lastTotal,  \* history: <<run_date, company>> -> length of the list the
                \* connector returned in the latest run of the company on the date
    call,       \* a function under evaluation and its arguments
    ret,        \* what it returned or raised
    committed,  \* the database as another connection reads it: what was committed
    snap        \* history: `committed` when the latest run update or batch began

dbvars == <<today, jobs, runs, pc, stmts, callIds, lastOp, firstUp, lastUp, upsToday>>
nfvars == <<server, max_pages, page_size, nfpc, start, total, page, seen_ids,
            repeat_sig_count, last_sig, postings, result, nreq, lastReqStart,
            sumBefore, sumAll, lastLen, firstTitle>>
rtvars == <<max_retries, backoff_s, rtpc, attempt, last_err, rtret, sleeps, nAttempts>>
appvars == <<enabled, schema, apc, co, xx_jobs, xx_new, trace, ncalls, lastTotal>>
fnvars == <<call, ret>>
txvars == <<committed, snap>>
extvars == <<rtvars, appvars, fnvars, txvars>>
vars == <<dbvars, nfvars, extvars>>

(* ------------------------------ storage -------------------------------- *)
Job == [job_id : JobIds, company : Companies, title : Titles, url : Urls,
        location : Locations]

Range(s) == {s[i] : i \in DOMAIN s}

\* COALESCE(excluded.location, jobs.location)
Coalesce(a, b) == IF a # NoLoc THEN a ELSE b

\* the VALUES (...) tuple of the INSERT
NewRow(j, d) ==
    [job_id |-> j.job_id, company |-> j.company, title |-> j.title,
     url |-> j.url, location |-> j.location, first_seen |-> d, last_seen |-> d]

UpdatedRowCompany(r, j, d) ==
    [r EXCEPT !.company = j.company, !.title = j.title, !.url = j.url,
              !.location = Coalesce(j.location, r.location),
              !.last_seen = d]

\* the DO UPDATE SET list
UpdatedRow(r, j, d) ==
    [r EXCEPT !.title = j.title, !.url = j.url,
              !.location = Coalesce(j.location, r.location),
              !.last_seen = d]

UpsertRowNoConflict(tbl, j, d) == Append(tbl, NewRow(j, d))

UpsertRowFirstSeen(tbl, j, d) ==
    IF \E i \in DOMAIN tbl : tbl[i].job_id = j.job_id
    THEN [i \in DOMAIN tbl |->
            IF tbl[i].job_id = j.job_id
            THEN [UpdatedRow(tbl[i], j, d) EXCEPT !.first_seen = d]
            ELSE tbl[i]]
    ELSE Append(tbl, NewRow(j, d))

UpsertRowLocation(tbl, j, d) ==
    IF \E i \in DOMAIN tbl : tbl[i].job_id = j.job_id
    THEN [i \in DOMAIN tbl |->
            IF tbl[i].job_id = j.job_id
            THEN [UpdatedRow(tbl[i], j, d) EXCEPT !.location = j.location]
            ELSE tbl[i]]
    ELSE Append(tbl, NewRow(j, d))

\* one conn.execute of upsert_jobs: INSERT ... ON CONFLICT(job_id) DO UPDATE
UpsertRow(tbl, j, d) ==
    IF \E i \in DOMAIN tbl : tbl[i].job_id = j.job_id
    THEN [i \in DOMAIN tbl |->
            IF tbl[i].job_id = j.job_id THEN UpdatedRow(tbl[i], j, d)
            ELSE tbl[i]]
    ELSE Append(tbl, NewRow(j, d))

Min(a, b) == IF a < b THEN a ELSE b

\* upsert_jobs is entered: today = date.today().isoformat().  The date does not
\* change inside one call (NextDay waits for pc = "idle"), so `today` is the
\* call's date in every statement of it.
upsert_jobs_begin ==
    /\ pc = "idle"
    /\ pc' = "upsert_jobs"
    /\ stmts' = 0
    /\ callIds' = {}
    /\ UNCHANGED <<today, jobs, runs, lastOp, firstUp, lastUp, upsToday>>
    /\ UNCHANGED <<nfvars, extvars>>

\* one round of `for j in jobs: conn.execute(...)`
upsert_jobs_execute ==
    /\ pc = "upsert_jobs"
    /\ stmts < MaxBatch
    /\ \E j \in Job :
        /\ jobs' = UpsertRow(jobs, j, today)
        /\ stmts' = stmts + 1
        /\ callIds' = callIds \cup {j.job_id}
        /\ lastOp' = [op |-> "upsert_jobs", job_id |-> j.job_id,
                      absent |-> j.location = NoLoc]
        /\ firstUp' = IF j.job_id \in DOMAIN firstUp THEN firstUp
                      ELSE firstUp @@ (j.job_id :> today)
        /\ lastUp' = [id \in DOMAIN lastUp \cup {j.job_id} |->
                        IF id = j.job_id THEN today ELSE lastUp[id]]
        /\ upsToday' = [upsToday EXCEPT ![j.job_id] =
                          IF j.job_id \in callIds THEN @ ELSE Min(@ + 1, 2)]
    /\ UNCHANGED <<today, runs, pc>>
    /\ UNCHANGED <<nfvars, extvars>>

\* the batch is exhausted: conn.commit()
upsert_jobs_commit ==
    /\ pc = "upsert_jobs"
    /\ pc' = "idle"
    /\ stmts' = 0
    /\ callIds' = {}
    /\ UNCHANGED <<today, jobs, runs, lastOp, firstUp, lastUp, upsToday>>
    /\ UNCHANGED <<nfvars, extvars>>

\* the INSERT ... ON CONFLICT(run_date, company) DO UPDATE of record_run
RunRow(d, company, ran_at, total_jobs, new_jobs) ==
    [run_date |-> d, company |-> company, ran_at |-> ran_at,
     total_jobs |-> total_jobs, new_jobs |-> new_jobs]

RecordRunNoConflict(tbl, d, company, ran_at, total_jobs, new_jobs) ==
    Append(tbl, RunRow(d, company, ran_at, total_jobs, new_jobs))

RecordRunKeepOld(tbl, d, company, ran_at, total_jobs, new_jobs) ==
    IF \E i \in DOMAIN tbl : tbl[i].run_date = d /\ tbl[i].company = company
    THEN tbl
    ELSE Append(tbl, RunRow(d, company, ran_at, total_jobs, new_jobs))

RecordRunOp(tbl, d, company, ran_at, total_jobs, new_jobs) ==
    IF \E i \in DOMAIN tbl : tbl[i].run_date = d /\ tbl[i].company = company
    THEN [i \in DOMAIN tbl |->
            IF tbl[i].run_date = d /\ tbl[i].company = company
            THEN [tbl[i] EXCEPT !.ran_at = ran_at, !.total_jobs = total_jobs,
                                !.new_jobs = new_jobs]
            ELSE tbl[i]]
    ELSE Append(tbl, RunRow(d, company, ran_at, total_jobs, new_jobs))

record_run ==
    /\ pc = "idle"
    /\ \E company \in Companies, v \in RunValues :
        /\ runs' = RecordRunOp(runs, today, company, v[1], v[2], v[3])
        /\ lastOp' = [op |-> "record_run", run_date |-> today, company |-> company,
                      ran_at |-> v[1], total_jobs |-> v[2], new_jobs |-> v[3]]
    /\ UNCHANGED <<today, jobs, pc, stmts, callIds, firstUp, lastUp, upsToday>>
    /\ UNCHANGED <<nfvars, extvars>>

NewTodayRowsLastSeen(tbl, company, d) ==
    SelectSeq(tbl, LAMBDA r : r.company = company /\ r.last_seen = d)

\* rows of one company first seen on day d, as get_new_today selects them
NewTodayRows(tbl, company, d) ==
    SelectSeq(tbl, LAMBDA r : r.company = company /\ r.first_seen = d)

\* ORDER BY title: a stable insertion of r into the sorted s
RECURSIVE InsertByTitle(_, _)
InsertByTitle(s, r) ==
    IF s = <<>> THEN <<r>>
    ELSE IF r.title < Head(s).title THEN <<r>> \o s
    ELSE <<Head(s)>> \o InsertByTitle(Tail(s), r)

RECURSIVE OrderByTitle(_)
OrderByTitle(s) ==
    IF s = <<>> THEN <<>>
    ELSE InsertByTitle(OrderByTitle(SubSeq(s, 1, Len(s) - 1)), s[Len(s)])

\* SELECT title, url, first_seen, last_seen
NewTodayColumns(r) == <<r.title, r.url, r.first_seen, r.last_seen>>

get_new_today(company) ==
    LET s == OrderByTitle(NewTodayRows(jobs, company, today))
    IN  [i \in DOMAIN s |-> NewTodayColumns(s[i])]

\* the calendar date moves on between two calls
NextDay ==
    /\ pc = "idle"
    /\ today < MaxDay
    /\ today' = today + 1
    /\ upsToday' = [id \in JobIds |-> 0]
    /\ UNCHANGED <<jobs, runs, pc, stmts, callIds, lastOp, firstUp, lastUp>>
    /\ UNCHANGED <<nfvars, extvars>>

InitStore ==
    /\ today = 1
    /\ jobs = <<>>
    /\ runs = <<>>
    /\ pc = "idle"
    /\ stmts = 0
    /\ callIds = {}
    /\ lastOp = [op |-> "none"]
    /\ firstUp = <<>>
    /\ lastUp = <<>>
    /\ upsToday = [id \in JobIds |-> 0]

\* the locals of fetch_jobs before the loop, netflix.py lines 98-106
FetchLocals ==
    /\ start = 0
    /\ total = NoTotal
    /\ page = 0
    /\ seen_ids = {}
    /\ repeat_sig_count = 0
    /\ last_sig = NoSig
    /\ postings = <<>>
    /\ result = <<>>
    /\ nreq = 0
    /\ lastReqStart = 0
    /\ sumBefore = 0
    /\ sumAll = 0
    /\ lastLen = -1
    /\ firstTitle = [id \in RawIds \cup {""} \cup Range(CatalogueIds) |-> ""]

\* no fetch_jobs call is under way
NoFetch ==
    /\ server = [mode |-> "none"]
    /\ max_pages = 0
    /\ page_size = DefaultPageSize
    /\ nfpc = "off"
    /\ FetchLocals

\* no _request_with_retries call is under way
NoRetry ==
    /\ max_retries = DefaultMaxRetries
    /\ backoff_s = DefaultBackoff
    /\ rtpc = "off"
    /\ attempt = 1
    /\ last_err = [kind |-> "none"]
    /\ rtret = [kind |-> "none"]
    /\ sleeps = <<>>
    /\ nAttempts = 0

\* the dashboard is not running; init_db has created both tables
NoApp ==
    /\ enabled = {}
    /\ schema = {"jobs", "runs"}
    /\ apc = "closed"
    /\ co = 1
    /\ xx_jobs = <<>>
    /\ xx_new = <<>>
    /\ trace = <<>>
    /\ ncalls = 0
    /\ lastTotal = <<>>

\* no function is under evaluation
NoCall ==
    /\ call = [fn |-> "none"]
    /\ ret = [kind |-> "none"]

\* a new database file: nothing is committed
EmptyDb == [jobs |-> <<>>, runs |-> <<>>]
\* mutant of Commit: conn.commit() leaves the database file as it was
CommitNothing(j, r) == committed

\* conn.commit(): the tables of the connection become what every reader sees
Commit(j, r) == [jobs |-> j, runs |-> r]

NoTx ==
    /\ committed = EmptyDb
    /\ snap = EmptyDb

InitDb == InitStore /\ NoFetch /\ NoRetry /\ NoApp /\ NoCall /\ NoTx

NextJobs == upsert_jobs_begin \/ upsert_jobs_execute \/ upsert_jobs_commit \/ NextDay
SpecJobs == InitDb /\ [][NextJobs]_vars

NextRuns == record_run \/ NextDay
SpecRuns == InitDb /\ [][NextRuns]_vars


(* ------------------------- Netflix connector --------------------------- *)
\* the JSON body of one response: the postings array and the reported count
Data(raw_jobs, count) == [jobs |-> raw_jobs, count |-> count]

\* _extract_raw_jobs: the postings array of the body
ExtractRawJobs(data) == data.jobs

\* _extract_total: an int, or a string of digits converted, else None
ExtractTotal(data) ==
    IF data.count.kind \in {"int", "str"}
    THEN [isInt |-> TRUE, n |-> data.count.n]
    ELSE NoTotal

\* _page_signature: the native ids of the first n records ("" for a missing id)
PageSignature(raw_jobs, n) == [i \in 1..Min(n, Len(raw_jobs)) |-> raw_jobs[i].id]

\* job_id=f"{self.COMPANY}:{job_id_str}"
NetflixJobId(id) == <<"Netflix", id>>

\* _parse_job: None for a record without an id or without a title
ParseJob(raw) ==
    IF raw.id = "" \/ raw.title = "" THEN NoJob
    ELSE [company |-> "Netflix", job_id |-> NetflixJobId(raw.id), title |-> raw.title]

SeenNever(job, seen) == FALSE

\* `if job.job_id in seen_ids: continue`
Seen(job, seen) == job.job_id \in seen

\* the for loop over raw_jobs: parse, skip the seen job_ids, append the rest
RECURSIVE ParsePage(_, _, _)
ParsePage(raw_jobs, seen, posts) ==
    IF raw_jobs = <<>> THEN [seen |-> seen, posts |-> posts]
    ELSE LET job == ParseJob(Head(raw_jobs))
         IN  IF job = NoJob \/ Seen(job, seen)
             THEN ParsePage(Tail(raw_jobs), seen, posts)
             ELSE ParsePage(Tail(raw_jobs), seen \cup {job.job_id}, Append(posts, job))

NextStartByLimit(s, raw_jobs, limit) == s + limit

\* start += len(raw_jobs)
NextStart(s, raw_jobs, limit) == s + Len(raw_jobs)

ReachedTotalStrict(t, posts) == t.isInt /\ Len(posts) > t.n

\* isinstance(total, int) and len(postings) >= total
ReachedTotal(t, posts) == t.isInt /\ Len(posts) >= t.n

StuckNever(count) == FALSE

\* repeat_sig_count >= 3
Stuck(count) == count >= StuckRepeats

CapNever(p, cap) == FALSE

\* max_pages is not None and page >= max_pages
AtCap(p, cap) == p >= cap

\* what a paging server holds: n postings with ids of their own and a title
Catalogue(n) == [i \in 1..n |-> [id |-> CatalogueIds[i], title |-> "A"]]

AnyPages == UNION {[1..n -> RawJobs] : n \in 0..MaxPageLen}

\* the bodies the server may answer a request (limit, start) with
Responses(srv, limit, s) ==
    CASE srv.mode = "any" ->
            {Data(raw_jobs, c) : raw_jobs \in AnyPages, c \in Counts}
      [] srv.mode = "stuck" ->
            {Data(srv.page, srv.count)}
      [] srv.mode = "paged" ->
            {Data(SubSeq(Catalogue(srv.n), s + 1,
                         Min(s + Min(srv.cap, limit), srv.n)),
                  IF srv.report = "none" THEN NoCount
                  ELSE [kind |-> srv.report, n |-> srv.n])}

\* the first parsable record of each native id, over the parsed pages
FirstTitles(ft, raw_jobs) ==
    [id \in DOMAIN ft |->
        IF ft[id] # "" THEN ft[id]
        ELSE LET ok == {i \in DOMAIN raw_jobs :
                            raw_jobs[i].id = id /\ ParseJob(raw_jobs[i]) # NoJob}
             IN  IF ok = {} \/ id = "" THEN ""
                 ELSE raw_jobs[CHOOSE i \in ok : \A k \in ok : i <= k].title]

\* the loop exits and fetch_jobs returns postings (keywords and
\* location_contains are None, as scrape_netflix() passes them from app.py)
Return(posts) ==
    /\ nfpc' = "done"
    /\ result' = posts

\* `if max_pages is not None and page >= max_pages: break`
fetch_cap ==
    /\ nfpc = "loop"
    /\ AtCap(page, max_pages)
    /\ Return(postings)
    /\ UNCHANGED <<server, max_pages, page_size, start, total, page, seen_ids,
                   repeat_sig_count, last_sig, postings, nreq, lastReqStart,
                   sumBefore, sumAll, lastLen, firstTitle>>
    /\ UNCHANGED <<dbvars, extvars>>

\* _get_jobs_page raises (the retries are used up, or the body is no JSON)
fetch_raises ==
    /\ nfpc = "loop"
    /\ ~AtCap(page, max_pages)
    /\ server.mode = "any"
    /\ nfpc' = "raised"
    /\ nreq' = nreq + 1
    /\ lastReqStart' = start
    /\ sumBefore' = sumAll
    /\ UNCHANGED <<server, max_pages, page_size, start, total, page, seen_ids,
                   repeat_sig_count, last_sig, postings, result, sumAll, lastLen,
                   firstTitle>>
    /\ UNCHANGED <<dbvars, extvars>>

\* one round of `while True` in which the request is answered
fetch_page ==
    /\ nfpc = "loop"
    /\ ~AtCap(page, max_pages)
    /\ \E data \in Responses(server, page_size, start) :
        LET raw_jobs == ExtractRawJobs(data)
            total1 == IF total = NoTotal THEN ExtractTotal(data) ELSE total
            sig == PageSignature(raw_jobs, Min(SignatureIds, Len(raw_jobs)))
            count1 == IF last_sig # NoSig /\ sig = last_sig
                      THEN repeat_sig_count + 1 ELSE 0
            parsed == ParsePage(raw_jobs, seen_ids, postings)
        IN  /\ nreq' = nreq + 1
            /\ lastReqStart' = start
            /\ sumBefore' = sumAll
            /\ sumAll' = sumAll + Len(raw_jobs)
            /\ lastLen' = Len(raw_jobs)
            /\ total' = total1
            /\ IF raw_jobs = <<>>
               THEN /\ Return(postings)
                    /\ UNCHANGED <<start, page, seen_ids, repeat_sig_count,
                                   last_sig, postings, firstTitle>>
               ELSE /\ repeat_sig_count' = count1
                    /\ last_sig' = sig
                    /\ IF Stuck(count1)
                       THEN /\ Return(postings)
                            /\ UNCHANGED <<start, page, seen_ids, postings,
                                           firstTitle>>
                       ELSE /\ seen_ids' = parsed.seen
                            /\ postings' = parsed.posts
                            /\ firstTitle' = FirstTitles(firstTitle, raw_jobs)
                            /\ start' = NextStart(start, raw_jobs, page_size)
                            /\ page' = page + 1
                            /\ IF ReachedTotal(total1, parsed.posts)
                               THEN Return(parsed.posts)
                               ELSE UNCHANGED <<nfpc, result>>
    /\ UNCHANGED <<server, max_pages, page_size>>
    /\ UNCHANGED <<dbvars, extvars>>

PagedServers ==
    [mode : {"paged"}, n : 0..MaxCatalogue, cap : 1..MaxCap,
     report : {"none", "int", "str"}]

StuckPages == UNION {[1..n -> RawJobsStuck] : n \in 1..MaxPageLen}

StuckServers == [mode : {"stuck"}, page : StuckPages, count : Counts]

InitNf ==
    /\ InitStore
    /\ NoRetry
    /\ NoApp
    /\ NoCall
    /\ NoTx
    /\ FetchLocals
    /\ nfpc = "loop"
    /\ \/ /\ server = [mode |-> "any"]
          /\ max_pages \in 0..MaxAnyPages
          /\ page_size = DefaultPageSize
       \/ /\ server \in PagedServers \cup StuckServers
          /\ max_pages \in 0..MaxPagesArg
          /\ page_size \in PageSizes

NextNf == fetch_page \/ fetch_cap \/ fetch_raises
SpecNf == InitNf /\ [][NextNf]_vars
\* a call that is inside its loop goes on: the thread runs, every request ends
\* (timeout_s) and _request_with_retries makes at most max_retries attempts
SpecNfFair == SpecNf /\ WF_vars(NextNf)

(* ---------------------- Netflix transport retry ------------------------ *)
\* what one session.request() attempt can come to: a response that passes
\* raise_for_status ("ok"), an exception of the transport ("exc"), a 5xx or a 429
\* response, any other 4xx response (raise_for_status raises)
Outcomes == {"ok", "exc", "5xx", "429", "4xx"}

\* the try block raises: session.request raised, or the status is >= 500 or 429
\* (line 231), or resp.raise_for_status() raised
Fails(o) == o # "ok"

SleepsAfterAlways(a, n) == TRUE

\* `if attempt < self.max_retries: time.sleep(...)`
SleepsAfter(a, n) == a < n

BackoffFlat(b, a) == b

\* self.backoff_s * attempt
Backoff(b, a) == b * a

\* one round of `for attempt in range(1, self.max_retries + 1)`
retry_attempt ==
    /\ rtpc = "request"
    /\ attempt <= max_retries
    /\ nAttempts' = nAttempts + 1
    /\ \E o \in Outcomes :
        IF ~Fails(o)
        THEN /\ rtpc' = "returned"
             /\ rtret' = [kind |-> "resp", attempt |-> attempt]
             /\ UNCHANGED <<attempt, last_err, sleeps>>
        ELSE /\ last_err' = [kind |-> o, attempt |-> attempt]
             /\ IF SleepsAfter(attempt, max_retries)
                THEN /\ sleeps' = Append(sleeps, Backoff(backoff_s, attempt))
                     /\ attempt' = attempt + 1
                     /\ UNCHANGED <<rtpc, rtret>>
                ELSE /\ rtpc' = "raised"
                     /\ rtret' = [kind |-> o, attempt |-> attempt]
                     /\ UNCHANGED <<attempt, sleeps>>
    /\ UNCHANGED <<max_retries, backoff_s>>
    /\ UNCHANGED <<dbvars, nfvars, appvars, fnvars, txvars>>

\* the range is used up: raise RuntimeError("Request failed") from last_err
retry_exhausted ==
    /\ rtpc = "request"
    /\ attempt > max_retries
    /\ rtpc' = "raised"
    /\ rtret' = [kind |-> "RuntimeError", attempt |-> 0]
    /\ UNCHANGED <<max_retries, backoff_s, attempt, last_err, sleeps, nAttempts>>
    /\ UNCHANGED <<dbvars, nfvars, appvars, fnvars, txvars>>

InitRetry ==
    /\ InitStore
    /\ NoFetch
    /\ NoApp
    /\ NoCall
    /\ NoTx
    /\ max_retries \in 0..MaxRetriesArg
    /\ backoff_s \in {0, 5, DefaultBackoff}
    /\ rtpc = "request"
    /\ attempt = 1
    /\ last_err = [kind |-> "none"]
    /\ rtret = [kind |-> "none"]
    /\ sleeps = <<>>
    /\ nAttempts = 0

NextRetry == retry_attempt \/ retry_exhausted
SpecRetry == InitRetry /\ [][NextRetry]_vars


(* ---------------------------- dashboard -------------------------------- *)
\* the `if "<company>" in enabled:` blocks of the run update, top to bottom
UpdateOrderNetflixFirst == <<"Netflix", "MathWorks", "Amazon", "Dassault Systemes">>

UpdateOrder == <<"MathWorks", "Amazon", "Dassault Systemes", "Netflix">>

\* the Jobs a connector makes: company is the connector's own name and job_id
\* is "<company>:<native id>"
AppIds ==
    [c \in Range(UpdateOrder) |->
        CASE c = "MathWorks" -> {"MathWorks:1"}
          [] c = "Amazon" -> {"Amazon:1"}
          [] c = "Dassault Systemes" -> {"Dassault Systemes:1"}
          [] c = "Netflix" -> {"Netflix:1", "Netflix:2"}]

AppJob(c) ==
    [job_id : AppIds[c], company : {c}, title : {1}, url : Urls, location : {NoLoc}]

\* the lists scrape_<company>() may return
Scraped(c) == UNION {[1..n -> AppJob(c)] : n \in 0..MaxScrape}

InEnabledAlways(c, en) == TRUE

\* "<company>" in enabled
InEnabled(c, en) == c \in en

InitDbRecreate(tbl, exists) == <<>>

\* CREATE TABLE IF NOT EXISTS: a table that exists is left as it is
InitDbOp(tbl, exists) == IF exists THEN tbl ELSE <<>>

\* the whole upsert_jobs call on a list: one INSERT per element, in order
RECURSIVE UpsertAll(_, _, _)
UpsertAll(tbl, js, d) ==
    IF js = <<>> THEN tbl
    ELSE UpsertAll(UpsertRow(tbl, Head(js), d), Tail(js), d)

RunCountsNewOnly(scraped, new) == <<Len(new), Len(new)>>

\* total_jobs=len(xx_jobs), new_jobs=len(xx_new)
RunCounts(scraped, new) == <<Len(scraped), Len(new)>>

\* one call of the run update, as the history keeps it
Called(c, f) == Append(trace, <<c, f>>)

\* a rerun of the script starts: load_profile, get_conn, init_db(conn)
app_start ==
    /\ apc \in {"closed", "idle", "failed"}
    /\ apc' = "ready"
    /\ jobs' = InitDbOp(jobs, "jobs" \in schema)
    /\ runs' = InitDbOp(runs, "runs" \in schema)
    /\ schema' = schema \cup {"jobs", "runs"}
    /\ committed' = Commit(jobs', runs')
    /\ UNCHANGED <<enabled, co, xx_jobs, xx_new, trace, ncalls, lastTotal>>
    /\ UNCHANGED <<today, pc, stmts, callIds, lastOp, firstUp, lastUp, upsToday>>
    /\ UNCHANGED <<nfvars, rtvars, fnvars, snap>>

\* the button was not pressed: the rest of the script only reads
\* (get_last_run, get_new_today, list_locations, search_jobs or list_recent)
app_render ==
    /\ apc = "ready"
    /\ apc' = "idle"
    /\ UNCHANGED <<enabled, schema, co, xx_jobs, xx_new, trace, ncalls, lastTotal>>
    /\ UNCHANGED <<dbvars, nfvars, rtvars, fnvars, txvars>>

\* `if st.button("Run update now")` is taken
run_update_begin ==
    /\ apc = "ready"
    /\ ncalls + Cardinality(enabled) <= MaxCalls
    /\ apc' = "company"
    /\ co' = 1
    /\ trace' = <<>>
    /\ snap' = committed
    /\ UNCHANGED <<enabled, schema, xx_jobs, xx_new, ncalls, lastTotal, committed>>
    /\ UNCHANGED <<dbvars, nfvars, rtvars, fnvars>>

\* `if "<company>" in enabled:` is false
run_update_skip ==
    /\ apc = "company"
    /\ co <= Len(UpdateOrder)
    /\ ~InEnabled(UpdateOrder[co], enabled)
    /\ co' = co + 1
    /\ UNCHANGED <<enabled, schema, apc, xx_jobs, xx_new, trace, ncalls, lastTotal>>
    /\ UNCHANGED <<dbvars, nfvars, rtvars, fnvars, txvars>>

\* xx_jobs = scrape_<company>()
run_update_scrape ==
    /\ apc = "company"
    /\ co <= Len(UpdateOrder)
    /\ InEnabled(UpdateOrder[co], enabled)
    /\ \E js \in Scraped(UpdateOrder[co]) :
        /\ xx_jobs' = js
        /\ lastTotal' =
            [k \in DOMAIN lastTotal \cup {<<today, UpdateOrder[co]>>} |->
                IF k = <<today, UpdateOrder[co]>> THEN Len(js) ELSE lastTotal[k]]
    /\ apc' = "upsert"
    /\ trace' = Called(UpdateOrder[co], "scrape")
    /\ ncalls' = ncalls + 1
    /\ UNCHANGED <<enabled, schema, co, xx_new>>
    /\ UNCHANGED <<dbvars, nfvars, rtvars, fnvars, txvars>>

\* scrape_<company>() raises (a transport failure): nothing catches it, the
\* script stops there
run_update_raise ==
    /\ apc = "company"
    /\ co <= Len(UpdateOrder)
    /\ InEnabled(UpdateOrder[co], enabled)
    /\ apc' = "failed"
    /\ trace' = Called(UpdateOrder[co], "scrape")
    /\ ncalls' = ncalls + 1
    /\ UNCHANGED <<enabled, schema, co, xx_jobs, xx_new, lastTotal>>
    /\ UNCHANGED <<dbvars, nfvars, rtvars, fnvars, txvars>>

\* upsert_jobs(conn, xx_jobs)
run_update_upsert ==
    /\ apc = "upsert"
    /\ jobs' = UpsertAll(jobs, xx_jobs, today)
    /\ apc' = "new_today"
    /\ committed' = Commit(jobs', runs)
    /\ trace' = Called(UpdateOrder[co], "upsert_jobs")
    /\ UNCHANGED <<enabled, schema, co, xx_jobs, xx_new, ncalls, lastTotal>>
    /\ UNCHANGED <<today, runs, pc, stmts, callIds, lastOp, firstUp, lastUp, upsToday>>
    /\ UNCHANGED <<nfvars, rtvars, fnvars, snap>>

\* xx_new = get_new_today(conn, "<company>")
run_update_new_today ==
    /\ apc = "new_today"
    /\ xx_new' = get_new_today(UpdateOrder[co])
    /\ apc' = "record"
    /\ trace' = Called(UpdateOrder[co], "get_new_today")
    /\ UNCHANGED <<enabled, schema, co, xx_jobs, ncalls, lastTotal>>
    /\ UNCHANGED <<dbvars, nfvars, rtvars, fnvars, txvars>>

\* record_run(conn, "<company>", total_jobs=len(xx_jobs), new_jobs=len(xx_new));
\* ran_at is the clock, which the count of connector calls stands for
run_update_record ==
    /\ apc = "record"
    /\ LET n == RunCounts(xx_jobs, xx_new)
       IN  runs' = RecordRunOp(runs, today, UpdateOrder[co], ncalls, n[1], n[2])
    /\ apc' = "company"
    /\ co' = co + 1
    /\ committed' = Commit(jobs, runs')
    /\ trace' = Called(UpdateOrder[co], "record_run")
    /\ UNCHANGED <<enabled, schema, xx_jobs, xx_new, ncalls, lastTotal>>
    /\ UNCHANGED <<today, jobs, pc, stmts, callIds, lastOp, firstUp, lastUp, upsToday>>
    /\ UNCHANGED <<nfvars, rtvars, fnvars, snap>>

\* the last block is passed: st.success(...) and the rest of the script, which
\* only reads
run_update_end ==
    /\ apc = "company"
    /\ co > Len(UpdateOrder)
    /\ apc' = "idle"
    /\ UNCHANGED <<enabled, schema, co, xx_jobs, xx_new, trace, ncalls, lastTotal>>
    /\ UNCHANGED <<dbvars, nfvars, rtvars, fnvars, txvars>>

\* the calendar date moves on while the dashboard waits for the next rerun
app_next_day ==
    /\ apc \in {"idle", "failed"}
    /\ NextDay

\* a new database file; the profile enables any of the four companies
InitApp ==
    /\ InitStore
    /\ NoFetch
    /\ NoRetry
    /\ NoCall
    /\ NoTx
    /\ enabled \in SUBSET Range(UpdateOrder)
    /\ schema = {}
    /\ apc = "closed"
    /\ co = 1
    /\ xx_jobs = <<>>
    /\ xx_new = <<>>
    /\ trace = <<>>
    /\ ncalls = 0
    /\ lastTotal = <<>>

NextApp ==
    \/ app_start \/ app_render \/ run_update_begin \/ run_update_skip
    \/ run_update_scrape \/ run_update_raise \/ run_update_upsert
    \/ run_update_new_today
    \/ run_update_record \/ run_update_end \/ app_next_day
SpecApp == InitApp /\ [][NextApp]_vars


(* ------------------------------ get_last_run --------------------------- *)
RECURSIVE InsertByRunDateAsc(_, _)
InsertByRunDateAsc(s, r) ==
    IF s = <<>> THEN <<r>>
    ELSE IF r.run_date < Head(s).run_date THEN <<r>> \o s
    ELSE <<Head(s)>> \o InsertByRunDateAsc(Tail(s), r)

\* ORDER BY run_date DESC: a stable insertion of r into the sorted s
RECURSIVE InsertByRunDateDesc(_, _)
InsertByRunDateDesc(s, r) ==
    IF s = <<>> THEN <<r>>
    ELSE IF r.run_date > Head(s).run_date THEN <<r>> \o s
    ELSE <<Head(s)>> \o InsertByRunDateDesc(Tail(s), r)

RECURSIVE OrderByRunDateDesc(_)
OrderByRunDateDesc(s) ==
    IF s = <<>> THEN <<>>
    ELSE InsertByRunDateDesc(OrderByRunDateDesc(SubSeq(s, 1, Len(s) - 1)), s[Len(s)])

\* SELECT run_date, ran_at, total_jobs, new_jobs
LastRunColumns(r) == <<r.run_date, r.ran_at, r.total_jobs, r.new_jobs>>

\* cur.fetchone() of a SELECT without rows: None
NoRow == <<>>

\* WHERE company = ? ORDER BY run_date DESC LIMIT 1, then cur.fetchone()
GetLastRun(tbl, company) ==
    LET s == OrderByRunDateDesc(SelectSeq(tbl, LAMBDA r : r.company = company))
    IN  IF s = <<>> THEN NoRow ELSE LastRunColumns(Head(s))

get_last_run(company) == GetLastRun(runs, company)


(* ------------------------------ load_profile --------------------------- *)
\* st.sidebar.selectbox("Profile", ["yt", "bz"])
ProfileNames == {"yt", "bz"}

\* the values a YAML mapping may give a key
YamlNull == [t |-> "null"]
DbPathValues == {[t |-> "str", v |-> <<"x.sqlite">>], [t |-> "int", v |-> <<"5">>], YamlNull}
EnabledValues ==
    {[t |-> "list", v |-> <<>>], [t |-> "list", v |-> <<"MathWorks">>],
     [t |-> "list", v |-> <<"Netflix", "MathWorks">>],
     [t |-> "str", v |-> <<"N", "f">>], YamlNull}

YamlMappings ==
    {[kind |-> "mapping", keys |-> ks, db_path |-> p, enabled_companies |-> e] :
        ks \in SUBSET {"db_path", "enabled_companies"},
        p \in DbPathValues, e \in EnabledValues}

\* the file profiles/<name>.yaml: missing, or a document that is empty,
\* malformed, a falsy value ([], 0, ''), a non-empty list or scalar, or a mapping
ProfileFiles ==
    {[kind |-> "missing"], [kind |-> "empty"], [kind |-> "malformed"],
     [kind |-> "falsy"], [kind |-> "list"]}
    \cup {f \in YamlMappings :
            /\ "db_path" \notin f.keys => f.db_path = YamlNull
            /\ "enabled_companies" \notin f.keys => f.enabled_companies = YamlNull}

Raise(e) == [kind |-> "raise", error |-> e]

EmptyMapping == [kind |-> "mapping", keys |-> {}, db_path |-> YamlNull,
                 enabled_companies |-> YamlNull]

YamlSafeLoadLenient(f) ==
    CASE f.kind = "malformed" -> [kind |-> "None"]
      [] f.kind = "empty" -> [kind |-> "None"]
      [] OTHER -> f

\* yaml.safe_load(text): None for an empty document, yaml.YAMLError for a
\* malformed one, else the value of the document
YamlSafeLoad(f) ==
    CASE f.kind = "malformed" -> Raise("YAMLError")
      [] f.kind = "empty" -> [kind |-> "None"]
      [] OTHER -> f

\* `<loaded> or {}`
OrEmpty(v) == IF v.kind \in {"None", "falsy"} THEN EmptyMapping ELSE v

\* f"data/{profile_name}.sqlite"
DefaultDbPath(profile_name) == <<"data/", profile_name, ".sqlite">>

\* str(data.get("db_path", default))
DbPathOf(data, profile_name) ==
    IF "db_path" \notin data.keys THEN DefaultDbPath(profile_name)
    ELSE IF data.db_path = YamlNull THEN <<"None">>
    ELSE data.db_path.v

\* list(data.get("enabled_companies", [])): a list is copied, a string gives its
\* characters, None is not iterable
EnabledOf(data) ==
    IF "enabled_companies" \notin data.keys THEN [kind |-> "list", v |-> <<>>]
    ELSE IF data.enabled_companies = YamlNull THEN Raise("TypeError")
    ELSE [kind |-> "list", v |-> data.enabled_companies.v]

ProfileConfig(name, db_path, enabled_companies) ==
    [kind |-> "ProfileConfig", name |-> name, db_path |-> db_path,
     enabled_companies |-> enabled_companies]

LoadProfile(profile_name, f) ==
    IF f.kind = "missing" THEN Raise("FileNotFoundError")
    ELSE LET loaded == YamlSafeLoad(f)
         IN  IF loaded.kind = "raise" THEN loaded
             ELSE LET data == OrEmpty(loaded)
                  IN  IF data.kind # "mapping" THEN Raise("AttributeError")
                      ELSE IF EnabledOf(data).kind = "raise" THEN EnabledOf(data)
                      ELSE ProfileConfig(profile_name, DbPathOf(data, profile_name),
                                         EnabledOf(data).v)

load_profile ==
    /\ call.fn = "load_profile"
    /\ ret = [kind |-> "none"]
    /\ ret' = LoadProfile(call.profile_name, call.file)
    /\ UNCHANGED call
    /\ UNCHANGED <<dbvars, nfvars, rtvars, appvars, txvars>>

InitProfile ==
    /\ InitStore
    /\ NoFetch
    /\ NoRetry
    /\ NoApp
    /\ NoTx
    /\ call \in [fn : {"load_profile"}, profile_name : ProfileNames, file : ProfileFiles]
    /\ ret = [kind |-> "none"]

NextProfile == load_profile
SpecProfile == InitProfile /\ [][NextProfile]_vars


(* ----------------------- COMSOL location labels ----------------------- *)
\* text is a sequence of one-character strings
Uppers == <<"A", "B", "C", "D", "E", "F", "G", "H", "I", "J", "K", "L", "M", "N", "O", "P", "Q", "R", "S", "T", "U", "V", "W", "X", "Y", "Z">>
Lowers == <<"a", "b", "c", "d", "e", "f", "g", "h", "i", "j", "k", "l", "m", "n", "o", "p", "q", "r", "s", "t", "u", "v", "w", "x", "y", "z">>
Whitespace == {" ", "\t"}

\* mutant of CollapseWs: whitespace runs are kept as they are
CollapseWsNone(s) == s

RECURSIVE LStrip(_)
LStrip(s) == IF s # <<>> /\ Head(s) \in Whitespace THEN LStrip(Tail(s)) ELSE s
RECURSIVE RStrip(_)
RStrip(s) ==
    IF s # <<>> /\ s[Len(s)] \in Whitespace THEN RStrip(SubSeq(s, 1, Len(s) - 1)) ELSE s
\* str.strip()
Strip(s) == RStrip(LStrip(s))

\* re.sub(r"\s+", " ", c): every maximal run of whitespace becomes one space
RECURSIVE CollapseWs(_)
CollapseWs(s) ==
    IF s = <<>> THEN <<>>
    ELSE IF Head(s) \in Whitespace THEN <<" ">> \o CollapseWs(LStrip(s))
    ELSE <<Head(s)>> \o CollapseWs(Tail(s))

\* c_norm.replace(".", "")
RECURSIVE RemovePeriods(_)
RemovePeriods(s) ==
    IF s = <<>> THEN <<>>
    ELSE IF Head(s) = "." THEN RemovePeriods(Tail(s))
    ELSE <<Head(s)>> \o RemovePeriods(Tail(s))

CaseFoldChar(c) == IF \E i \in 1..Len(Uppers) : Uppers[i] = c
                   THEN Lowers[CHOOSE i \in 1..Len(Uppers) : Uppers[i] = c] ELSE c
UpperChar(c) == IF \E i \in 1..Len(Lowers) : Lowers[i] = c
                THEN Uppers[CHOOSE i \in 1..Len(Lowers) : Lowers[i] = c] ELSE c
\* str.casefold() and str.upper() on ASCII text
CaseFold(s) == [i \in 1..Len(s) |-> CaseFoldChar(s[i])]
Upper(s) == [i \in 1..Len(s) |-> UpperChar(s[i])]

\* the mapping of _country_to_iso2, key and two-letter code
CountryMapping ==
    <<<<<<"u", "s", "a">>, <<"U", "S">>>>,
      <<<<"u", "s">>, <<"U", "S">>>>,
      <<<<"u", "n", "i", "t", "e", "d", " ", "s", "t", "a", "t", "e", "s">>, <<"U", "S">>>>,
      <<<<"u", "n", "i", "t", "e", "d", " ", "s", "t", "a", "t", "e", "s", " ", "o", "f", " ", "a", "m", "e", "r", "i", "c", "a">>, <<"U", "S">>>>,
      <<<<"u", "n", "i", "t", "e", "d", " ", "k", "i", "n", "g", "d", "o", "m">>, <<"G", "B">>>>,
      <<<<"u", "k">>, <<"G", "B">>>>,
      <<<<"g", "r", "e", "a", "t", " ", "b", "r", "i", "t", "a", "i", "n">>, <<"G", "B">>>>,
      <<<<"c", "h", "i", "n", "a">>, <<"C", "N">>>>,
      <<<<"g", "e", "r", "m", "a", "n", "y">>, <<"D", "E">>>>,
      <<<<"f", "r", "a", "n", "c", "e">>, <<"F", "R">>>>,
      <<<<"i", "t", "a", "l", "y">>, <<"I", "T">>>>,
      <<<<"f", "i", "n", "l", "a", "n", "d">>, <<"F", "I">>>>,
      <<<<"s", "w", "e", "d", "e", "n">>, <<"S", "E">>>>,
      <<<<"i", "n", "d", "i", "a">>, <<"I", "N">>>>>>

MappingGet(key) ==
    IF \E i \in 1..Len(CountryMapping) : CountryMapping[i][1] = key
    THEN CountryMapping[CHOOSE i \in 1..Len(CountryMapping) : CountryMapping[i][1] = key][2]
    ELSE <<>>

country_to_iso2(country_raw) ==
    LET c == Strip(country_raw)
        c_norm == RemovePeriods(CollapseWs(c))
        key == CaseFold(c_norm)
    IN  IF MappingGet(key) # <<>> THEN MappingGet(key) ELSE Upper(Strip(c))

\* heading.split(","): the pieces between the commas, empty ones included
RECURSIVE SplitComma(_, _)
SplitComma(s, cur) ==
    IF s = <<>> THEN <<cur>>
    ELSE IF Head(s) = "," THEN <<cur>> \o SplitComma(Tail(s), <<>>)
    ELSE SplitComma(Tail(s), Append(cur, Head(s)))

\* [p.strip() for p in heading.split(",") if p.strip()]
RECURSIVE StripNonEmpty(_)
StripNonEmpty(ps) ==
    IF ps = <<>> THEN <<>>
    ELSE IF Strip(Head(ps)) # <<>> THEN <<Strip(Head(ps))>> \o StripNonEmpty(Tail(ps))
    ELSE StripNonEmpty(Tail(ps))

HeadingParts(heading) == StripNonEmpty(SplitComma(heading, <<>>))

\* utils.location.normalize_location, kept as the call and its three arguments
normalize_location(country, state, city) ==
    [kind |-> "location", country |-> country, state |-> state, city |-> city]

NormalizeHeadingLocation(heading) ==
    LET parts == HeadingParts(heading)
    IN  IF Len(parts) < 2 THEN [kind |-> "None"]
        ELSE IF Len(parts) = 2
             THEN normalize_location(country_to_iso2(parts[2]), <<>>, parts[1])
             ELSE normalize_location(country_to_iso2(parts[3]), parts[2], parts[1])

\* sub-heading texts: up to MaxParts pieces joined by commas
MaxParts == 4
HeadingPieces ==
    {<<>>,
     <<" ">>,
     <<" ", "R", "o", "m", "e", " ">>,
     <<"m", "a">>,
     <<"U", ".", "s", ".">>,
     <<"U", "n", "i", "t", "e", "d", " ", "\t", " ", "S", "t", "a", "t", "e", "s">>,
     <<"u", "n", "i", "t", "e", "d", " ", ".", " ", "s", "t", "a", "t", "e", "s">>,
     <<"M", "a", "r", "s", " ">>}

RECURSIVE JoinComma(_)
JoinComma(ps) ==
    IF Len(ps) = 1 THEN ps[1] ELSE ps[1] \o <<",">> \o JoinComma(Tail(ps))

Headings == {JoinComma(ps) : ps \in UNION {[1..n -> HeadingPieces] : n \in 1..MaxParts}}

normalize_heading_location ==
    /\ call.fn = "_normalize_heading_location"
    /\ ret = [kind |-> "none"]
    /\ ret' = NormalizeHeadingLocation(call.heading)
    /\ UNCHANGED call
    /\ UNCHANGED <<dbvars, nfvars, rtvars, appvars, txvars>>

InitHeading ==
    /\ InitStore
    /\ NoFetch
    /\ NoRetry
    /\ NoApp
    /\ NoTx
    /\ call \in [fn : {"_normalize_heading_location"}, heading : Headings]
    /\ ret = [kind |-> "none"]

NextHeading == normalize_heading_location
SpecHeading == InitHeading /\ [][NextHeading]_vars

(* --------------------------- company dropdown -------------------------- *)
\* the company names in the order of ORDER BY company
CompanyOrder == <<"Amazon", "COMSOL", "Dassault Systemes", "MathWorks", "Netflix">>

\* SELECT DISTINCT company FROM jobs ORDER BY company, from the set of companies
\* that have rows
DbCompanies(present) == SelectSeq(CompanyOrder, LAMBDA c : c \in present)

\* ["MathWorks", "Amazon", "Dassault Systemes"]
DropdownDefaults == <<"MathWorks", "Amazon", "Dassault Systemes">>

\* companies of the sidebar selectbox, from the companies present in the jobs
\* table and cfg.enabled_companies
Dropdown(present, enabled_companies) ==
    LET en == Range(enabled_companies)
        db_companies == DbCompanies(present)
    IN  IF en # {}
        THEN LET companies == SelectSeq(db_companies, LAMBDA c : c \in en)
             IN  companies \o SelectSeq(enabled_companies,
                                        LAMBDA c : c \notin Range(companies))
        ELSE IF db_companies # <<>> THEN db_companies ELSE DropdownDefaults

\* enabled_companies lists of a profile: up to MaxEnabled names, in any order
MaxEnabled == 2
EnabledNames == {"MathWorks", "Netflix", "COMSOL"}
EnabledLists == UNION {[1..n -> EnabledNames] : n \in 0..MaxEnabled}

dropdown ==
    /\ call.fn = "dropdown"
    /\ ret = [kind |-> "none"]
    /\ ret' = [kind |-> "companies",
               companies |-> Dropdown(call.present, call.enabled_companies)]
    /\ UNCHANGED call
    /\ UNCHANGED <<dbvars, nfvars, rtvars, appvars, txvars>>

InitDropdown ==
    /\ InitStore
    /\ NoFetch
    /\ NoRetry
    /\ NoApp
    /\ NoTx
    /\ call \in [fn : {"dropdown"}, present : SUBSET Range(CompanyOrder),
                 enabled_companies : EnabledLists]
    /\ ret = [kind |-> "none"]

NextDropdown == dropdown
SpecDropdown == InitDropdown /\ [][NextDropdown]_vars


(* ------------------------------ search_jobs ---------------------------- *)
\* an optional text argument or a nullable column: None / NULL, or a text
None == [some |-> FALSE, v |-> ""]
Some(v) == [some |-> TRUE, v |-> v]

\* the characters of titles and queries in code-point order (BINARY collation)
CodePoints == <<" ", "%">> \o Uppers \o <<"_">> \o Lowers
CodePoint(c) == CHOOSE i \in 1..Len(CodePoints) : CodePoints[i] = c

\* a < b for two texts under the BINARY collation
RECURSIVE TextLess(_, _)
TextLess(a, b) ==
    IF b = <<>> THEN FALSE
    ELSE IF a = <<>> THEN TRUE
    ELSE IF Head(a) # Head(b) THEN CodePoint(Head(a)) < CodePoint(Head(b))
    ELSE TextLess(Tail(a), Tail(b))

\* text LIKE pattern of SQLite: % matches any run of characters, _ any one
\* character, and ASCII letters match without regard to case
RECURSIVE Like(_, _)
Like(text, pattern) ==
    IF pattern = <<>> THEN text = <<>>
    ELSE IF Head(pattern) = "%"
         THEN Like(text, Tail(pattern)) \/ (text # <<>> /\ Like(Tail(text), pattern))
    ELSE IF text = <<>> THEN FALSE
    ELSE /\ Head(pattern) = "_" \/ CaseFoldChar(Head(pattern)) = CaseFoldChar(Head(text))
         /\ Like(Tail(text), Tail(pattern))

\* q = f"%{query.strip()}%"
LikePattern(query) == <<"%">> \o Strip(query) \o <<"%">>

\* `if company:` and `if location and location != "(Any)":`
CompanySupplied(company) == company.some /\ company.v # ""
LocationSupplied(location) == location.some /\ location.v \notin {"", "(Any)"}

\* the WHERE clause: the conjunction of the predicates that were added
SearchWhere(r, company, query, location) ==
    /\ CompanySupplied(company) => r.company = company.v
    /\ Like(r.title, LikePattern(query))
    /\ LocationSupplied(location) => (r.location.some /\ r.location.v = location.v)

\* ORDER BY last_seen DESC, title ASC
SearchBefore(r, s) ==
    \/ r.last_seen > s.last_seen
    \/ r.last_seen = s.last_seen /\ TextLess(r.title, s.title)

\* the orders the ORDER BY allows for a set of rows (rows that tie may come in
\* either order)
SearchOrders(rows) ==
    {f \in [1..Cardinality(rows) -> rows] :
        /\ \A i, j \in DOMAIN f : i # j => f[i] # f[j]
        /\ \A i, j \in DOMAIN f : i < j => ~SearchBefore(f[j], f[i])}

\* SELECT title, url, location, first_seen, last_seen
SearchColumns(r) ==
    [title |-> r.title, url |-> r.url, location |-> r.location,
     first_seen |-> r.first_seen, last_seen |-> r.last_seen]

\* LIMIT ?
SearchLimit(rows, limit) == SubSeq(rows, 1, IF limit < Len(rows) THEN limit ELSE Len(rows))

\* limit: int = 500
DefaultLimit == 500

\* rows of the jobs table to search in
SearchRows ==
    {[job_id |-> "Amazon:1", company |-> "Amazon", title |-> <<"a", "b">>, url |-> "u1",
      location |-> Some("US"), first_seen |-> 1, last_seen |-> 2],
     [job_id |-> "Amazon:2", company |-> "Amazon", title |-> <<"B">>, url |-> "u2",
      location |-> Some("US"), first_seen |-> 2, last_seen |-> 2],
     [job_id |-> "Netflix:1", company |-> "Netflix", title |-> <<"a", "b">>, url |-> "u3",
      location |-> None, first_seen |-> 1, last_seen |-> 2],
     [job_id |-> "Amazon:3", company |-> "Amazon", title |-> <<"a", "_">>, url |-> "u4",
      location |-> Some("DE"), first_seen |-> 1, last_seen |-> 1],
     [job_id |-> "Netflix:2", company |-> "Netflix", title |-> <<"A", " ", "b">>, url |-> "u5",
      location |-> Some("US"), first_seen |-> 1, last_seen |-> 1]}

MaxSearchRows == 2
SearchTables == {t \in SUBSET SearchRows : Cardinality(t) <= MaxSearchRows}
SearchQueries ==
    {<<>>, <<"a">>, <<"A", "B">>, <<" ", "b", " ">>, <<"_">>, <<"a", "%", "b">>}

search_jobs ==
    /\ call.fn = "search_jobs"
    /\ ret = [kind |-> "none"]
    /\ LET matching == {r \in call.table :
                            SearchWhere(r, call.company, call.query, call.location)}
       IN  \E ord \in SearchOrders(matching) :
                ret' = [kind |-> "rows",
                        rows |-> SearchLimit([i \in 1..Len(ord) |-> SearchColumns(ord[i])],
                                             call.limit)]
    /\ UNCHANGED call
    /\ UNCHANGED <<dbvars, nfvars, rtvars, appvars, txvars>>

InitSearch ==
    /\ InitStore
    /\ NoFetch
    /\ NoRetry
    /\ NoApp
    /\ NoTx
    /\ call \in [fn : {"search_jobs"}, table : SearchTables,
                 company : {None, Some(""), Some("Amazon")},
                 query : SearchQueries,
                 location : {None, Some("(Any)"), Some("US")},
                 limit : {0, 1, 2, DefaultLimit}]
    /\ ret = [kind |-> "none"]

NextSearch == search_jobs
SpecSearch == InitSearch /\ [][NextSearch]_vars


(* ------------------------------ pagination ----------------------------- *)
\* st.selectbox("Rows per page", [25, 50, 100])
RowsPerPage == {25, 50, 100}

Max(a, b) == IF a > b THEN a ELSE b

\* mutant of MaxPage: one page too many when the page size divides the total
MaxPageFloorPlusOne(n, size) == Max(1, n \div size + 1)

\* max_page = max(1, (total - 1) // page_size + 1)
MaxPage(n, size) == Max(1, (n - 1) \div size + 1)

\* st.number_input("Page", min_value=1, max_value=max_page, step=1): the widget
\* keeps the number asked for within [min_value, max_value]
NumberInput(min_value, max_value, asked) == Min(Max(asked, min_value), max_value)

\* rows[start:end]
Slice(rows, from, to) == SubSeq(rows, from + 1, Min(to, Len(rows)))

Paginate(rows, size, asked) ==
    LET n == Len(rows)
        max_page == MaxPage(n, size)
        p == NumberInput(1, max_page, asked)
        from == (p - 1) * size
        to == from + size
    IN  [kind |-> "page", max_page |-> max_page, page |-> p,
         page_rows |-> Slice(rows, from, to),
         caption |-> <<from + 1, Min(to, n), n>>]

\* the result lists to page through: rows 1..total, and the page numbers asked for
MaxTotal == 120
MaxAsked == 5

paginate ==
    /\ call.fn = "paginate"
    /\ ret = [kind |-> "none"]
    /\ ret' = Paginate([i \in 1..call.total |-> i], call.page_size, call.asked)
    /\ UNCHANGED call
    /\ UNCHANGED <<dbvars, nfvars, rtvars, appvars, txvars>>

InitPaginate ==
    /\ InitStore
    /\ NoFetch
    /\ NoRetry
    /\ NoApp
    /\ NoTx
    /\ call \in [fn : {"paginate"}, total : 1..MaxTotal, page_size : RowsPerPage,
                 asked : 0..MaxAsked]
    /\ ret = [kind |-> "none"]

NextPaginate == paginate
SpecPaginate == InitPaginate /\ [][NextPaginate]_vars


(* ------------------------ storage transactions ------------------------- *)
\* The storage calls of one connection, with the transaction the sqlite3 module
\* opens before the first INSERT made explicit: `jobs` and `runs` are the tables as
\* the connection sees them, `committed` is what every other connection reads.

\* the Jobs of a batch; `fails` marks a Job whose conn.execute raises a storage
\* error (sqlite3.Error)
MaxTxBatch == 2
TxGood == [job_id : JobIds, company : {"Netflix"}, title : Titles, url : Urls,
           location : {NoLoc}]
TxJob ==
    {[job |-> j, fails |-> FALSE] : j \in TxGood}
    \cup {[job |-> j, fails |-> TRUE] : j \in {g \in TxGood : g.job_id = "j2" /\ g.title = 1}}
TxBatches == UNION {[1..n -> TxJob] : n \in 0..MaxTxBatch}

\* upsert_jobs(conn, jobs) is entered
tx_upsert_begin ==
    /\ pc = "idle"
    /\ \E js \in TxBatches : xx_jobs' = js
    /\ pc' = "upsert_jobs"
    /\ stmts' = 0
    /\ snap' = committed
    /\ UNCHANGED <<today, jobs, runs, callIds, lastOp, firstUp, lastUp, upsToday>>
    /\ UNCHANGED <<enabled, schema, apc, co, xx_new, trace, ncalls, lastTotal, committed>>
    /\ UNCHANGED <<nfvars, rtvars, fnvars>>

\* one round of `for j in jobs: conn.execute(...)`: the row is written inside the
\* open transaction
tx_upsert_execute ==
    /\ pc = "upsert_jobs"
    /\ stmts < Len(xx_jobs)
    /\ ~xx_jobs[stmts + 1].fails
    /\ jobs' = UpsertRow(jobs, xx_jobs[stmts + 1].job, today)
    /\ stmts' = stmts + 1
    /\ UNCHANGED <<today, runs, pc, callIds, lastOp, firstUp, lastUp, upsToday>>
    /\ UNCHANGED <<nfvars, extvars>>

\* conn.execute raises: upsert_jobs is left by the exception, without
\* conn.commit() and without a rollback; the transaction stays open
tx_upsert_raise ==
    /\ pc = "upsert_jobs"
    /\ stmts < Len(xx_jobs)
    /\ xx_jobs[stmts + 1].fails
    /\ pc' = "idle"
    /\ lastOp' = [op |-> "upsert_jobs", raised |-> TRUE]
    /\ UNCHANGED <<today, jobs, runs, stmts, callIds, firstUp, lastUp, upsToday>>
    /\ UNCHANGED <<nfvars, extvars>>

\* the batch is exhausted: conn.commit()
tx_upsert_commit ==
    /\ pc = "upsert_jobs"
    /\ stmts = Len(xx_jobs)
    /\ committed' = Commit(jobs, runs)
    /\ pc' = "idle"
    /\ lastOp' = [op |-> "upsert_jobs", raised |-> FALSE]
    /\ UNCHANGED <<today, jobs, runs, stmts, callIds, firstUp, lastUp, upsToday>>
    /\ UNCHANGED <<nfvars, rtvars, appvars, fnvars, snap>>

\* record_run(conn, company, total_jobs, new_jobs): the INSERT and conn.commit(),
\* which commits whatever the connection's transaction holds
tx_record_run ==
    /\ pc = "idle"
    /\ \E v \in {<<1, 0, 0>>, <<2, 1, 0>>} :
        /\ runs' = RecordRunOp(runs, today, "Netflix", v[1], v[2], v[3])
        /\ lastOp' = [op |-> "record_run", run_date |-> today, company |-> "Netflix",
                      ran_at |-> v[1], total_jobs |-> v[2], new_jobs |-> v[3]]
    /\ committed' = Commit(jobs, runs')
    /\ UNCHANGED <<today, jobs, pc, stmts, callIds, firstUp, lastUp, upsToday>>
    /\ UNCHANGED <<nfvars, rtvars, appvars, fnvars, snap>>

\* the connection is dropped and get_conn opens a new one (a rerun of the
\* script): what was not committed is rolled back
tx_reconnect ==
    /\ pc = "idle"
    /\ jobs' = committed.jobs
    /\ runs' = committed.runs
    /\ lastOp' = [op |-> "get_conn"]
    /\ UNCHANGED <<today, pc, stmts, callIds, firstUp, lastUp, upsToday>>
    /\ UNCHANGED <<nfvars, extvars>>

InitTx == InitDb
NextTx ==
    \/ tx_upsert_begin \/ tx_upsert_execute \/ tx_upsert_raise
    \/ tx_upsert_commit \/ tx_record_run \/ tx_reconnect
SpecTx == InitTx /\ [][NextTx]_vars


(* ----------------------------- scrape_comsol --------------------------- *)
\* the href values of the links of a page
JobHrefs == {"/company/careers/job/1/", "/company/careers/job/2", "/company/about/"}

\* JOB_HREF_RE.search(href): the digits of /company/careers/job/<digits>, or ""
\* when the pattern does not match
JobHrefId(href) ==
    CASE href = "/company/careers/job/1/" -> "1"
      [] href = "/company/careers/job/2" -> "2"
      [] OTHER -> ""

\* the elements that follow the "Career Opportunities Worldwide" heading as its
\* siblings: a top-level heading, a sub-heading with its text, a list with its
\* links, any other element
H2 == [name |-> "h2"]
H3(text) == [name |-> "h3", text |-> text]
Ul(links) == [name |-> "ul", links |-> links]
Other == [name |-> "p"]
Link(href, title) == [href |-> href, title |-> title]

PageElements ==
    {H2, Other,
     H3(<<"A", ",", "u", "s">>), H3(<<"B", ",", "b", ",", "U", "K">>),
     Ul(<<>>),
     Ul(<<Link("/company/careers/job/1/", "T1")>>),
     Ul(<<Link("/company/careers/job/2", "T2")>>),
     Ul(<<Link("/company/about/", "T3"), Link("/company/careers/job/2", ""),
          Link("/company/careers/job/1/", "T4")>>)}

MaxSiblings == 4
Pages == UNION {[1..n -> PageElements] : n \in 0..MaxSiblings}

\* node.find_next_sibling("ul"): the first list after position i, 0 for None
FindNextUl(sibs, i) ==
    IF \E k \in (i + 1)..Len(sibs) : sibs[k].name = "ul"
    THEN CHOOSE k \in (i + 1)..Len(sibs) :
            sibs[k].name = "ul" /\ \A m \in (i + 1)..(k - 1) : sibs[m].name # "ul"
    ELSE 0

\* Job(company=COMPANY, job_id=f"{COMPANY}:{num_id}", title, url=urljoin(BASE_URL, href),
\* location)
ComsolJob(num_id, title, href, location) ==
    [company |-> "COMSOL", job_id |-> <<"COMSOL", num_id>>, title |-> title,
     url |-> <<"https://www.comsol.com", href>>, location |-> location]

\* jobs[job_id] = job on a dict: a known key keeps its place and takes the new
\* value, a new key goes to the end
DictSet(d, job) ==
    IF \E i \in DOMAIN d : d[i].job_id = job.job_id
    THEN [i \in DOMAIN d |-> IF d[i].job_id = job.job_id THEN job ELSE d[i]]
    ELSE Append(d, job)

\* for a in ul.find_all("a", href=True): links without a job href or a title are
\* passed over
RECURSIVE AddLinks(_, _, _)
AddLinks(d, links, location) ==
    IF links = <<>> THEN d
    ELSE LET a == Head(links)
             num_id == JobHrefId(a.href)
         IN  IF num_id = "" \/ a.title = ""
             THEN AddLinks(d, Tail(links), location)
             ELSE AddLinks(DictSet(d, ComsolJob(num_id, a.title, a.href, location)),
                           Tail(links), location)

\* the `while node is not None` loop, node being sibs[i]
RECURSIVE Walk(_, _, _)
Walk(sibs, i, d) ==
    IF i > Len(sibs) THEN d
    ELSE IF sibs[i].name = "h2" THEN d
    ELSE IF sibs[i].name = "h3"
         THEN LET location == NormalizeHeadingLocation(sibs[i].text)
                  ul == FindNextUl(sibs, i)
              IN  IF ul # 0
                  THEN Walk(sibs, ul + 1, AddLinks(d, sibs[ul].links, location))
                  ELSE Walk(sibs, i + 1, d)
    ELSE Walk(sibs, i + 1, d)

\* scrape_comsol on a fetched page: [] without the careers heading, else
\* list(jobs.values())
ScrapeComsol(doc) ==
    IF ~doc.careers THEN <<>> ELSE Walk(doc.siblings, 1, <<>>)

scrape_comsol ==
    /\ call.fn = "scrape_comsol"
    /\ ret = [kind |-> "none"]
    /\ ret' = [kind |-> "jobs", jobs |-> ScrapeComsol(call.page)]
    /\ UNCHANGED call
    /\ UNCHANGED <<dbvars, nfvars, rtvars, appvars, txvars>>

InitComsol ==
    /\ InitStore
    /\ NoFetch
    /\ NoRetry
    /\ NoApp
    /\ NoTx
    /\ call \in [fn : {"scrape_comsol"},
                 page : [careers : BOOLEAN, siblings : Pages]]
    /\ ret = [kind |-> "none"]

NextComsol == scrape_comsol
SpecComsol == InitComsol /\ [][NextComsol]_vars


(* ---------------------------- storage writes --------------------------- *)
\* Whole calls of the two writing functions on one database, day after day.

\* the Jobs of a batch: any company and title under job_id j1, one Job under j2
WriteJob ==
    {j \in Job : j.url = "u1" /\ j.location = NoLoc
                 /\ (j.job_id = "j2" => (j.company = "Netflix" /\ j.title = 1))}
WriteBatches ==
    {<<>>} \cup {<<j>> : j \in WriteJob} \cup {<<j, k>> : j, k \in WriteJob}

\* a Job of the batch names another company than the stored row of its job_id
OtherCompany(tbl, js) ==
    \E n \in DOMAIN js, i \in DOMAIN tbl :
        tbl[i].job_id = js[n].job_id /\ tbl[i].company # js[n].company

\* upsert_jobs(conn, jobs): the loop of INSERTs and conn.commit()
write_upsert_jobs ==
    /\ pc = "idle"
    /\ \E js \in WriteBatches :
        /\ jobs' = UpsertAll(jobs, js, today)
        /\ lastOp' = [op |-> "upsert_jobs", ids |-> {js[n].job_id : n \in DOMAIN js},
                      other_company |-> OtherCompany(jobs, js)]
    /\ committed' = Commit(jobs', runs)
    /\ UNCHANGED <<today, runs, pc, stmts, callIds, firstUp, lastUp, upsToday>>
    /\ UNCHANGED <<nfvars, rtvars, appvars, fnvars, snap>>

\* record_run(conn, company, total_jobs, new_jobs): the INSERT and conn.commit()
write_record_run ==
    /\ pc = "idle"
    /\ \E v \in {<<1, 0, 0>>, <<2, 1, 0>>} :
        /\ runs' = RecordRunOp(runs, today, "Netflix", v[1], v[2], v[3])
        /\ lastOp' = [op |-> "record_run", run_date |-> today, company |-> "Netflix",
                      ran_at |-> v[1], total_jobs |-> v[2], new_jobs |-> v[3]]
    /\ committed' = Commit(jobs, runs')
    /\ UNCHANGED <<today, jobs, pc, stmts, callIds, firstUp, lastUp, upsToday>>
    /\ UNCHANGED <<nfvars, rtvars, appvars, fnvars, snap>>

InitWrites == InitDb
NextWrites == write_upsert_jobs \/ write_record_run \/ NextDay
SpecWrites == InitWrites /\ [][NextWrites]_vars


(* ------------------------- claims: storage ----------------------------- *)
RowsOf(id) == {i \in DOMAIN jobs : jobs[i].job_id = id}

\* the first upsert_jobs call that held this job_id was made on day d
FirstUpOn(id, d) == id \in DOMAIN firstUp /\ firstUp[id] = d

OneRowSeenOnlyToday(id) ==
    /\ Cardinality(RowsOf(id)) = 1
    /\ \A i \in RowsOf(id) :
        jobs[i].first_seen = today /\ jobs[i].last_seen = today

\* C1 as stated: a job_id that two upsert_jobs calls of the same day held has
\* exactly one row, and that row has first_seen = last_seen = that day.
C1_TwiceSameDay_AnyHistory ==
    \A id \in JobIds : upsToday[id] = 2 => OneRowSeenOnlyToday(id)

\* C1 amended: a job_id that no call before today held and that two upsert_jobs
\* calls of today held has exactly one row, with first_seen = last_seen = today.
C1_TwiceSameDay_NewToday ==
    \A id \in JobIds :
        upsToday[id] = 2 /\ FirstUpOn(id, today) => OneRowSeenOnlyToday(id)

C1_Witness ==
    /\ pc = "idle"
    /\ \E id \in JobIds :
        upsToday[id] = 2 /\ FirstUpOn(id, today) /\ RowsOf(id) # {}

C2_Inv ==
    \A id \in JobIds :
        /\ id \notin DOMAIN firstUp => RowsOf(id) = {}
        /\ id \in DOMAIN firstUp =>
            /\ RowsOf(id) # {}
            /\ \A i \in RowsOf(id) :
                /\ jobs[i].first_seen = firstUp[id]
                /\ jobs[i].last_seen = lastUp[id]
                /\ jobs[i].first_seen <= jobs[i].last_seen

C2_Frozen ==
    \A i \in DOMAIN jobs :
        /\ i \in DOMAIN jobs'
        /\ jobs'[i].job_id = jobs[i].job_id
        /\ jobs'[i].first_seen = jobs[i].first_seen

\* C2: on non-decreasing dates every row's first_seen is the day of the first
\* upsert that held its job_id and no step changes it; its last_seen is the day
\* of the latest upsert that held it; so first_seen <= last_seen.
C2_FirstSeenLastSeen == [](C2_Inv) /\ [][C2_Frozen]_vars

C2_Witness ==
    \E i \in DOMAIN jobs :
        /\ jobs[i].first_seen < jobs[i].last_seen
        /\ upsToday[jobs[i].job_id] = 2

C3_Step ==
    \A i \in DOMAIN jobs :
        jobs[i].location # NoLoc =>
            /\ i \in DOMAIN jobs'
            /\ jobs'[i].job_id = jobs[i].job_id
            /\ jobs'[i].location # NoLoc
            /\ ( /\ stmts' = stmts + 1
                 /\ lastOp'.op = "upsert_jobs"
                 /\ lastOp'.job_id = jobs[i].job_id
                 /\ lastOp'.absent )
               => jobs'[i].location = jobs[i].location

\* C3: a stored known location never becomes absent, and the upsert of a Job
\* with an absent location leaves a known stored location of its job_id as it was.
C3_LocationNonRegression == [][C3_Step]_vars

C3_Witness ==
    /\ lastOp.op = "upsert_jobs"
    /\ lastOp.absent
    /\ \E i \in DOMAIN jobs :
        /\ jobs[i].job_id = lastOp.job_id
        /\ jobs[i].location # NoLoc
        /\ jobs[i].first_seen < jobs[i].last_seen

NewTodayExpected(company) ==
    {i \in DOMAIN jobs :
        jobs[i].company = company /\ FirstUpOn(jobs[i].job_id, today)}

\* C4: get_new_today(company) returns exactly the rows of the company whose
\* job_id was first upserted today, each once, in ascending order of title.
C4_NewToday ==
    \A c \in Companies :
        LET r == get_new_today(c)
            E == NewTodayExpected(c)
        IN  /\ Len(r) = Cardinality(E)
            /\ \A t \in Range(r) \cup {NewTodayColumns(jobs[i]) : i \in E} :
                Cardinality({k \in DOMAIN r : r[k] = t})
                    = Cardinality({i \in E : NewTodayColumns(jobs[i]) = t})
            /\ \A k \in 1..(Len(r) - 1) : r[k][1] <= r[k + 1][1]

C4_Witness ==
    /\ pc = "idle"
    /\ today > 1
    /\ \E c \in Companies, i, k \in DOMAIN jobs :
        /\ jobs[i].company = c
        /\ jobs[i].first_seen < today
        /\ jobs[i].last_seen = today
        /\ jobs[k].company = c
        /\ jobs[k].first_seen = today
        /\ get_new_today(c) = <<NewTodayColumns(jobs[k])>>

SameRunKey(r, d, company) == r.run_date = d /\ r.company = company

RunsUnique(tbl) ==
    \A i, k \in DOMAIN tbl :
        SameRunKey(tbl[i], tbl[k].run_date, tbl[k].company) => i = k

RecordRunStep == lastOp'.op = "record_run" /\ (lastOp' # lastOp \/ runs' # runs)

C5_Step ==
    /\ RunsUnique(runs')
    /\ RecordRunStep =>
        LET c == lastOp'.company
            had == {i \in DOMAIN runs : SameRunKey(runs[i], today, c)}
        IN  /\ Len(runs') = Len(runs) + (IF had = {} THEN 1 ELSE 0)
            /\ \A i \in DOMAIN runs :
                IF i \in had
                THEN runs'[i] = RunRow(today, c, lastOp'.ran_at,
                                       lastOp'.total_jobs, lastOp'.new_jobs)
                ELSE runs'[i] = runs[i]
            /\ had = {} =>
                runs'[Len(runs')] = RunRow(today, c, lastOp'.ran_at,
                                           lastOp'.total_jobs, lastOp'.new_jobs)

\* C5: the runs table never holds two rows of one (run_date, company); a
\* record_run for a key that is stored rewrites that row's ran_at, total_jobs and
\* new_jobs to the call's values and adds no row; every other row stays as it is.
C5_RunOverwrite == [][C5_Step]_vars

C5_Witness ==
    /\ lastOp.op = "record_run"
    /\ \E i, k \in DOMAIN runs :
        /\ i < k
        /\ SameRunKey(runs[i], today, lastOp.company)
        /\ runs[k].run_date = today
        /\ runs[i].ran_at = lastOp.ran_at
        /\ runs[i].total_jobs = lastOp.total_jobs
        /\ runs[i].new_jobs = lastOp.new_jobs

(* ------------------------- claims: Netflix ----------------------------- *)
\* C6: the first page request has start = 0 and every later request has start =
\* the number of records all responses before it returned, whatever the limit.
C6_StartAdvance ==
    /\ nreq >= 1 => lastReqStart = sumBefore
    /\ nreq = 1 => lastReqStart = 0
    /\ nfpc = "loop" => start = sumAll

C6_Witness ==
    /\ server.mode = "any"
    /\ nreq = 3
    /\ lastReqStart = 3
    /\ lastLen = 2
    /\ page_size # lastLen

PerPage == Min(server.cap, page_size)
PagesOf(n, c) == (n + c - 1) \div c
ParsedCatalogue == [i \in 1..server.n |-> ParseJob(Catalogue(server.n)[i])]

C8_StuckGuard ==
    server.mode = "stuck"
    => /\ nreq <= StuckRepeats + 1
       /\ nreq = StuckRepeats + 1 => nfpc = "done"
       /\ nfpc # "raised"
       /\ nfpc = "done" =>
            /\ result = postings
            /\ result = IF page = 0 THEN <<>>
                        ELSE ParsePage(server.page, {}, <<>>).posts

C8_Witness ==
    /\ server.mode = "stuck"
    /\ server.count = NoCount
    /\ max_pages > StuckRepeats + 1
    /\ nfpc = "done"
    /\ nreq = StuckRepeats + 1
    /\ page = StuckRepeats
    /\ result # <<>>

C9_Safe ==
    /\ nreq <= max_pages
    /\ lastLen = 0 => nfpc = "done"

\* C9: whatever the server answers, a call with a finite max_pages ends, issues
\* at most max_pages page requests, and stops at the first empty page.
C9_Termination == <>(nfpc # "loop") /\ [](C9_Safe)

C9_Witness ==
    /\ server.mode = "any"
    /\ nfpc = "done"
    /\ max_pages = MaxAnyPages
    /\ nreq = max_pages
    /\ lastLen > 0
    /\ total = NoTotal
    /\ repeat_sig_count = 0

NoTwoSameId(posts) ==
    \A i, k \in DOMAIN posts : posts[i].job_id = posts[k].job_id => i = k

\* C10: neither the list under construction nor the returned list holds two Jobs
\* of one job_id, and the Job kept for a native id is its first parsable record
\* in the pages parsed.
C10_Dedup ==
    /\ NoTwoSameId(postings)
    /\ NoTwoSameId(result)
    /\ \A id \in DOMAIN firstTitle :
        firstTitle[id] # "" <=>
            \E i \in DOMAIN postings : postings[i].job_id = NetflixJobId(id)
    /\ \A i \in DOMAIN postings :
        postings[i].title = firstTitle[postings[i].job_id[2]]
    /\ nfpc = "done" => result = postings

C10_Witness ==
    /\ server.mode = "stuck"
    /\ server.page = <<[id |-> "101", title |-> "A"], [id |-> "101", title |-> "B"]>>
    /\ server.count = NoCount
    /\ nfpc = "done"
    /\ page = StuckRepeats
    /\ result = <<ParseJob([id |-> "101", title |-> "A"])>>

(* ------------------------- claims: transport --------------------------- *)
\* C11: one call makes at most max_retries attempts; every failed attempt but
\* the last allowed one is followed by a wait of backoff_s * attempt-number and
\* by another attempt; a response that passes is returned at once; when the last
\* allowed attempt fails its failure is raised and nothing is waited after it.
C11_Retry ==
    /\ nAttempts <= max_retries
    /\ sleeps = [i \in 1..Len(sleeps) |-> backoff_s * i]
    /\ rtpc = "request" =>
        /\ nAttempts = attempt - 1
        /\ Len(sleeps) = nAttempts
        /\ max_retries >= 1 => attempt <= max_retries
    /\ rtpc = "returned" =>
        /\ rtret = [kind |-> "resp", attempt |-> nAttempts]
        /\ Len(sleeps) = nAttempts - 1
    /\ (rtpc = "raised" /\ max_retries >= 1) =>
        /\ nAttempts = max_retries
        /\ Len(sleeps) = max_retries - 1
        /\ rtret = last_err
        /\ rtret.attempt = max_retries
        /\ rtret.kind \in {"exc", "5xx", "429", "4xx"}

C11_Witness ==
    /\ max_retries = DefaultMaxRetries
    /\ backoff_s = DefaultBackoff
    /\ rtpc = "raised"
    /\ rtret = [kind |-> "429", attempt |-> 3]
    /\ sleeps = <<8, 16>>

(* ------------------------- claims: dashboard --------------------------- *)
C12_Rank ==
    [c \in {"MathWorks", "Amazon", "Dassault Systemes", "Netflix"} |->
        CASE c = "MathWorks" -> 1 [] c = "Amazon" -> 2
          [] c = "Dassault Systemes" -> 3 [] c = "Netflix" -> 4]

C12_Steps(c) ==
    <<<<c, "scrape">>, <<c, "upsert_jobs">>, <<c, "get_new_today">>, <<c, "record_run">>>>

\* the calls one run update has to make for an enabled set, in order
C12_Expected(en) ==
    LET f[i \in 0..4] ==
            IF i = 0 THEN <<>>
            ELSE LET c == CHOOSE x \in DOMAIN C12_Rank : C12_Rank[x] = i
                 IN  f[i - 1] \o (IF c \in en THEN C12_Steps(c) ELSE <<>>)
    IN  f[4]

IsPrefix(s, t) == Len(s) <= Len(t) /\ SubSeq(t, 1, Len(s)) = s

\* C12: the calls of a run update are, in this order, connector, upsert_jobs,
\* get_new_today, record_run for MathWorks, then Amazon, then Dassault Systemes,
\* then Netflix, the companies outside the enabled set left out (all of them
\* when the update passes its last block, a prefix when a connector raises);
\* a company outside the enabled set is never invoked and has no run record.
C12_UpdateOrdering ==
    /\ IsPrefix(trace, C12_Expected(enabled))
    /\ (apc = "company" /\ co > 4) => trace = C12_Expected(enabled)
    /\ \A i \in DOMAIN trace : trace[i][1] \in enabled
    /\ \A i \in DOMAIN runs : runs[i].company \in enabled

C12_Witness ==
    /\ apc = "company"
    /\ co > 4
    /\ enabled = {"MathWorks", "Dassault Systemes", "Netflix"}
    /\ Len(trace) = 12
    /\ trace[4] = <<"MathWorks", "record_run">>
    /\ trace[5] = <<"Dassault Systemes", "scrape">>
    /\ Len(runs) = 3

\* the company block the run update is inside of
InBlock(d, c) ==
    /\ apc \in {"upsert", "new_today", "record"}
    /\ UpdateOrder[co] = c
    /\ d = today

\* C13: once the run of a company is recorded, and in every later state, its
\* run record (run_date, company) has total_jobs = the length of the list the
\* connector returned in the latest run of the company on that date, and
\* new_jobs = the number of stored rows of the company with first_seen = run_date.
C13_RunContent ==
    \A i \in DOMAIN runs :
        LET r == runs[i]
        IN  ~InBlock(r.run_date, r.company) =>
                /\ <<r.run_date, r.company>> \in DOMAIN lastTotal
                /\ r.total_jobs = lastTotal[<<r.run_date, r.company>>]
                /\ r.new_jobs = Cardinality({k \in DOMAIN jobs :
                        jobs[k].company = r.company /\ jobs[k].first_seen = r.run_date})

C13_Witness ==
    /\ apc = "idle"
    /\ today = 2
    /\ \E i, k \in DOMAIN runs :
        /\ runs[i].company = runs[k].company
        /\ runs[i].run_date = 1
        /\ runs[i].total_jobs = 1
        /\ runs[i].new_jobs = 2
        /\ runs[k].run_date = 2
        /\ runs[k].total_jobs = 1
        /\ runs[k].new_jobs = 0

StoredIds(tbl) == {tbl[i].job_id : i \in DOMAIN tbl}

C14_Step ==
    /\ StoredIds(jobs) \subseteq StoredIds(jobs')
    /\ (apc \in {"closed", "idle", "failed"} /\ apc' = "ready"
            /\ schema = {"jobs", "runs"})
        => (jobs' = jobs /\ runs' = runs)

\* C14: no step of the dashboard (init_db at the start of a rerun, the queries,
\* the run update with its upsert_jobs and record_run) removes a stored job_id,
\* and init_db on a database that has its tables leaves jobs and runs as they are.
C14_NeverDeleted == [][C14_Step]_vars

C14_Witness ==
    /\ apc = "ready"
    /\ today = 2
    /\ Len(jobs) >= 2
    /\ Len(runs) >= 2
    /\ \E i \in DOMAIN jobs : jobs[i].last_seen < today

(* ------------------------- claims: get_last_run ------------------------ *)
C15_Inv ==
    \A c \in Companies :
        LET mine == {i \in DOMAIN runs : runs[i].company = c}
            r == get_last_run(c)
        IN  /\ r = NoRow <=> mine = {}
            /\ r # NoRow =>
                /\ \E i \in mine : r = LastRunColumns(runs[i])
                /\ \A i \in mine : runs[i].run_date <= r[1]

\* after record_run, and until the next storage statement, get_last_run of its
\* company is the date and the values of that call
C15_AfterRecord ==
    lastOp.op = "record_run" =>
        get_last_run(lastOp.company) =
            <<lastOp.run_date, lastOp.ran_at, lastOp.total_jobs, lastOp.new_jobs>>

\* C15: get_last_run(company) is absent exactly when no run of the company is
\* recorded; otherwise it is the run record of that company with the greatest
\* run_date; a record_run of the company makes it the date and the values of
\* that call, which a new day does not change.
C15_LastRun == C15_Inv /\ C15_AfterRecord

C15_Witness ==
    /\ today = 2
    /\ Len(runs) = 3
    /\ runs[1].company = "MathWorks" /\ runs[1].run_date = 1
    /\ runs[2].company = "MathWorks" /\ runs[2].run_date = 2
    /\ runs[3].company = "Netflix" /\ runs[3].run_date = 2
    /\ get_last_run("MathWorks") = LastRunColumns(runs[2])
    /\ lastOp.op = "record_run"
    /\ lastOp.company = "MathWorks"
    /\ get_last_run("Netflix") # NoRow
    /\ get_last_run("Netflix") # get_last_run("MathWorks")

(* ------------------------- claims: load_profile ------------------------ *)
ProfileDefaults(name) == ProfileConfig(name, <<"data/", name, ".sqlite">>, <<>>)

\* C16, as the specification states it: a missing profile file makes load_profile fail with
\* FileNotFoundError; a file whose document is empty or malformed makes it return
\* the ProfileConfig of all defaults.
C16_LoadProfileErrors ==
    (call.fn = "load_profile" /\ ret.kind # "none") =>
        /\ call.file.kind = "missing" => ret = Raise("FileNotFoundError")
        /\ call.file.kind \in {"empty", "malformed"} =>
                ret = ProfileDefaults(call.profile_name)

\* C16, amended: a missing profile file makes load_profile fail with
\* FileNotFoundError, an empty document gives the ProfileConfig of all defaults,
\* and a malformed document makes load_profile fail with the parser's YAMLError.
C16_MissingAndEmpty ==
    (call.fn = "load_profile" /\ ret.kind # "none") =>
        /\ call.file.kind = "missing" => ret = Raise("FileNotFoundError")
        /\ call.file.kind = "empty" => ret = ProfileDefaults(call.profile_name)
        /\ call.file.kind = "malformed" => ret = Raise("YAMLError")

C16_Witness ==
    /\ call.fn = "load_profile"
    /\ call.file.kind = "malformed"
    /\ ret = Raise("YAMLError")

(* --------------------- claims: COMSOL location labels ------------------ *)
\* the pieces of h between commas, by the index sets of h
C17_Commas(h) == {i \in 1..Len(h) : h[i] = ","}
C17_Starts(h) == {1} \cup {i + 1 : i \in C17_Commas(h)}
C17_Min(S) == CHOOSE i \in S : \A j \in S : i <= j
C17_Max(S) == CHOOSE i \in S : \A j \in S : i >= j
C17_End(h, a) ==
    LET later == {i \in C17_Commas(h) : i >= a}
    IN  IF later # {} THEN C17_Min(later) - 1 ELSE Len(h)
C17_Ink(h, a) == {i \in a..C17_End(h, a) : h[i] \notin Whitespace}
C17_PartStarts(h) == {a \in C17_Starts(h) : C17_Ink(h, a) # {}}
\* the k-th element of a set of indices
C17_Nth(S, k) == CHOOSE i \in S : Cardinality({j \in S : j < i}) = k - 1
\* the k-th trimmed non-empty part of h
C17_Part(h, k) ==
    LET ink == C17_Ink(h, C17_Nth(C17_PartStarts(h), k))
    IN  SubSeq(h, C17_Min(ink), C17_Max(ink))

\* the key of a trimmed text: whitespace runs collapsed to one space, periods
\* removed, letters lower-cased
C17_Kept(t) ==
    {i \in 1..Len(t) : t[i] # "." /\ ~(i > 1 /\ t[i] \in Whitespace /\ t[i - 1] \in Whitespace)}
C17_Key(t) ==
    LET kept == C17_Kept(t)
    IN  [k \in 1..Cardinality(kept) |->
            LET c == t[C17_Nth(kept, k)]
            IN  IF c \in Whitespace THEN " " ELSE CaseFoldChar(c)]
C17_Code(t) ==
    LET key == C17_Key(t)
        listed == {m \in 1..Len(CountryMapping) : CountryMapping[m][1] = key}
    IN  IF listed # {} THEN CountryMapping[CHOOSE m \in listed : TRUE][2]
        ELSE [i \in 1..Len(t) |-> UpperChar(t[i])]

\* C17: the sub-heading is split on commas into trimmed non-empty parts; fewer
\* than 2 parts give no location; exactly 2 parts give
\* normalize_location(code(part2), no state, part1); 3 or more give
\* normalize_location(code(part3), part2, part1), later parts being ignored;
\* code() maps a listed country name (case-insensitive, whitespace collapsed,
\* periods removed) to its two-letter code and other text to its upper-cased form.
C17_HeadingLocation ==
    (call.fn = "_normalize_heading_location" /\ ret.kind # "none") =>
        LET h == call.heading
            n == Cardinality(C17_PartStarts(h))
        IN  IF n < 2 THEN ret = [kind |-> "None"]
            ELSE IF n = 2
            THEN ret = normalize_location(C17_Code(C17_Part(h, 2)), <<>>, C17_Part(h, 1))
            ELSE ret = normalize_location(C17_Code(C17_Part(h, 3)), C17_Part(h, 2),
                                          C17_Part(h, 1))

C17_Witness ==
    /\ call.fn = "_normalize_heading_location"
    /\ Cardinality(C17_PartStarts(call.heading)) = 4
    /\ Cardinality(C17_Commas(call.heading)) = 3
    /\ Len(call.heading) = 32
    /\ ret = [kind |-> "location", country |-> <<"U", "S">>, state |-> <<"m", "a">>,
              city |-> <<"R", "o", "m", "e">>]

(* ------------------------ claims: company dropdown --------------------- *)
C18_Count(s, c) == Cardinality({i \in 1..Len(s) : s[i] = c})

\* C18: with a non-empty enabled list the dropdown lists the enabled companies
\* present in the database first and the enabled companies not in the database
\* after them, each enabled company exactly once and no other company; with an
\* empty enabled list it lists the distinct companies of the database, or the
\* defaults MathWorks, Amazon, Dassault Systemes when the database holds none.
C18_Dropdown ==
    (call.fn = "dropdown" /\ ret.kind # "none") =>
        LET out == ret.companies
            en == Range(call.enabled_companies)
            present == call.present
        IN  IF en # {}
            THEN /\ \A c \in en : C18_Count(out, c) = 1
                 /\ \A i \in 1..Len(out) : out[i] \in en
                 /\ \A i, j \in 1..Len(out) :
                        (out[i] \in present /\ out[j] \notin present) => i < j
            ELSE IF present # {}
                 THEN /\ Range(out) = present
                      /\ Len(out) = Cardinality(present)
                 ELSE out = <<"MathWorks", "Amazon", "Dassault Systemes">>

\* what the code keeps of C18: as C18, except that an enabled company absent from
\* the database appears as many times as the enabled list names it
C18_DropdownUpToRepeats ==
    (call.fn = "dropdown" /\ ret.kind # "none") =>
        LET out == ret.companies
            en == Range(call.enabled_companies)
            present == call.present
        IN  IF en # {}
            THEN /\ \A c \in en :
                        C18_Count(out, c) = IF c \in present THEN 1
                                            ELSE C18_Count(call.enabled_companies, c)
                 /\ \A i \in 1..Len(out) : out[i] \in en
                 /\ \A i, j \in 1..Len(out) :
                        (out[i] \in present /\ out[j] \notin present) => i < j
            ELSE IF present # {}
                 THEN /\ Range(out) = present
                      /\ Len(out) = Cardinality(present)
                 ELSE out = <<"MathWorks", "Amazon", "Dassault Systemes">>

C18_Witness ==
    /\ call.fn = "dropdown"
    /\ call.enabled_companies = <<"Netflix", "Netflix">>
    /\ call.present = {}
    /\ ret.kind = "companies"
    /\ ret.companies = <<"Netflix", "Netflix">>

(* --------------------------- claims: search_jobs ----------------------- *)
\* title contains q as a substring, letters compared without regard to case
C19_Contains(title, q) ==
    \E k \in 0..(Len(title) - Len(q)) :
        \A i \in 1..Len(q) : CaseFoldChar(title[k + i]) = CaseFoldChar(q[i])

\* the rows of the table that satisfy all supplied predicates
C19_Matching ==
    {r \in call.table :
        /\ CompanySupplied(call.company) => r.company = call.company.v
        /\ C19_Contains(r.title, Strip(call.query))
        /\ LocationSupplied(call.location) =>
                (r.location.some /\ r.location.v = call.location.v)}

C19_Min(a, b) == IF a < b THEN a ELSE b

\* a comes strictly before b in the order last_seen descending, title ascending
C19_Before(a, b) ==
    \/ a.last_seen > b.last_seen
    \/ a.last_seen = b.last_seen /\ TextLess(a.title, b.title)

C19_Composition ==
    LET out == ret.rows
        shown == {r \in call.table : \E i \in 1..Len(out) : out[i] = SearchColumns(r)}
    IN  /\ \A i \in 1..Len(out) : \E r \in C19_Matching : out[i] = SearchColumns(r)
        /\ \A i, j \in 1..Len(out) : i < j => ~C19_Before(out[j], out[i])
        /\ \A i, j \in 1..Len(out) : i # j => out[i] # out[j]
        /\ Len(out) = C19_Min(call.limit, Cardinality(C19_Matching))
        /\ \A r \in C19_Matching \ shown : \A i \in 1..Len(out) : ~C19_Before(r, out[i])

\* C19: search_jobs(company, query, location, limit) returns only rows that
\* satisfy all supplied predicates (company equal, title containing the query as a
\* case-insensitive substring, location equal), ordered by last_seen descending
\* then title ascending, and returns the first min(limit, matching rows) of them.
C19_SearchFilter ==
    (call.fn = "search_jobs" /\ ret.kind # "none") => C19_Composition

\* what the code keeps of C19: the same, for queries without the LIKE wildcards
\* % and _
C19_SearchFilterPlainQuery ==
    (/\ call.fn = "search_jobs"
     /\ ret.kind # "none"
     /\ \A i \in 1..Len(call.query) : call.query[i] \notin {"%", "_"}) => C19_Composition

C19_Witness ==
    /\ call.fn = "search_jobs"
    /\ call.query = <<"_">>
    /\ call.company = Some("Amazon")
    /\ call.location = Some("US")
    /\ call.limit = 2
    /\ ret.kind = "rows"
    /\ Len(ret.rows) = 2
    /\ ret.rows[1].title = <<"B">>
    /\ ret.rows[2].title = <<"a", "b">>

(* ---------------------------- claims: pagination ----------------------- *)
\* the least k with k * b >= a
C20_Ceil(a, b) == CHOOSE k \in 0..a : k * b >= a /\ (k = 0 \/ (k - 1) * b < a)

\* C20: for total >= 1 and page_size in {25, 50, 100}, max_page is
\* max(1, ceil(total / page_size)), the page is within [1, max_page], and page p
\* shows exactly rows (p-1)*page_size+1 .. min(p*page_size, total), never an empty
\* range; for 120 rows and page_size 50, max_page is 3 and asking for page 5
\* shows page 3, rows 101-120.
C20_PaginationClamp ==
    (call.fn = "paginate" /\ ret.kind # "none") =>
        LET ceil == C20_Ceil(call.total, call.page_size)
            p == ret.page
            first == (p - 1) * call.page_size + 1
            last == IF p * call.page_size < call.total THEN p * call.page_size
                    ELSE call.total
        IN  /\ ret.max_page = (IF ceil > 1 THEN ceil ELSE 1)
            /\ p \in 1..ret.max_page
            /\ call.asked \in 1..ret.max_page => p = call.asked
            /\ call.asked > ret.max_page => p = ret.max_page
            /\ first <= last
            /\ ret.page_rows = [i \in 1..(last - first + 1) |-> first + i - 1]
            /\ ret.caption = <<first, last, call.total>>
            /\ (call.total = 120 /\ call.page_size = 50 /\ call.asked = 5) =>
                    /\ ret.max_page = 3
                    /\ p = 3
                    /\ ret.caption = <<101, 120, 120>>

C20_Witness ==
    /\ call.fn = "paginate"
    /\ call.total = 120
    /\ call.page_size = 50
    /\ call.asked = 5
    /\ ret.kind = "page"
    /\ ret.page = 3
    /\ Len(ret.page_rows) = 20
    /\ ret.page_rows[1] = 101
    /\ ret.page_rows[20] = 120

(* ----------------------- claims: update failure ------------------------ *)
C21_Of(tbl, c) == SelectSeq(tbl, LAMBDA r : r.company = c)

\* C21: when the connector of an enabled company raised in a run update, no
\* upsert_jobs and no record_run was called, and no row was written, for that
\* company or any company later in the fixed order in that run update, while the
\* run record and the jobs of every enabled company earlier in the order are in
\* the committed database, and nothing is left uncommitted.
C21_FailurePropagation ==
    apc = "failed" =>
        LET failing == trace[Len(trace)][1]
            at == C12_Rank[failing]
        IN  /\ trace[Len(trace)][2] = "scrape"
            /\ committed = [jobs |-> jobs, runs |-> runs]
            /\ \A i \in 1..Len(trace) :
                    trace[i][2] \in {"upsert_jobs", "record_run"} =>
                        C12_Rank[trace[i][1]] < at
            /\ \A c \in DOMAIN C12_Rank :
                    IF c \in enabled /\ C12_Rank[c] < at
                    THEN LET later == {e \in enabled : C12_Rank[c] < C12_Rank[e]
                                                        /\ C12_Rank[e] <= at}
                         IN  \E i \in DOMAIN committed.runs :
                                LET r == committed.runs[i]
                                IN  /\ r.company = c
                                    /\ r.ran_at = ncalls - Cardinality(later)
                                    /\ r.total_jobs = lastTotal[<<r.run_date, c>>]
                                    /\ r.total_jobs >= 1 =>
                                        \E k \in DOMAIN committed.jobs :
                                            /\ committed.jobs[k].company = c
                                            /\ committed.jobs[k].last_seen = r.run_date
                    ELSE /\ C21_Of(committed.jobs, c) = C21_Of(snap.jobs, c)
                         /\ C21_Of(committed.runs, c) = C21_Of(snap.runs, c)

C21_Witness ==
    /\ apc = "failed"
    /\ enabled = {"MathWorks", "Netflix"}
    /\ trace[Len(trace)] = <<"Netflix", "scrape">>
    /\ Len(trace) = 5
    /\ Len(snap.runs) = 2
    /\ Len(snap.jobs) = 2
    /\ committed.runs # snap.runs
    /\ C21_Of(committed.runs, "Netflix") # <<>>
    /\ C21_Of(committed.runs, "MathWorks")[1].ran_at = 3

(* ----------------------- claims: batch visibility ---------------------- *)
\* the jobs table with the whole batch applied to it
RECURSIVE C22_Applied(_, _, _)
C22_Applied(tbl, js, d) ==
    IF js = <<>> THEN tbl
    ELSE C22_Applied(UpsertRow(tbl, Head(js).job, d), Tail(js), d)

\* C22: another reader of the database sees either none or all of the rows of an
\* upsert_jobs batch, also when the batch failed partway and the connection is
\* afterwards used for another committing operation such as record_run.
C22_BatchVisibility ==
    \/ committed.jobs = snap.jobs
    \/ committed.jobs = C22_Applied(snap.jobs, xx_jobs, today)

\* what the code keeps of C22: while upsert_jobs runs, and after it raised until
\* the connection commits again, readers see the jobs table as it was when the
\* batch began
C22_HiddenUntilCommit ==
    (pc = "upsert_jobs" \/ (lastOp.op = "upsert_jobs" /\ lastOp.raised)) =>
        committed.jobs = snap.jobs

C22_Witness ==
    /\ lastOp.op = "record_run"
    /\ Len(xx_jobs) = 2
    /\ ~xx_jobs[1].fails
    /\ xx_jobs[2].fails
    /\ xx_jobs[1].job.job_id # xx_jobs[2].job.job_id
    /\ snap.jobs = <<>>
    /\ Len(committed.jobs) = 1
    /\ committed.jobs[1].job_id = xx_jobs[1].job.job_id

(* ------------------------- claims: scrape_comsol ----------------------- *)
\* the position of the next top-level heading, or past the end without one
C23_Stop(sibs) ==
    IF \E k \in DOMAIN sibs : sibs[k].name = "h2"
    THEN CHOOSE k \in DOMAIN sibs :
            sibs[k].name = "h2" /\ \A m \in 1..(k - 1) : sibs[m].name # "h2"
    ELSE Len(sibs) + 1

\* the list at position u holds a link that makes this Job
C23_Holds(sibs, u, job) ==
    /\ sibs[u].name = "ul"
    /\ \E n \in DOMAIN sibs[u].links :
        LET a == sibs[u].links[n]
        IN  /\ JobHrefId(a.href) # ""
            /\ job.job_id = <<"COMSOL", JobHrefId(a.href)>>
            /\ job.title = a.title
            /\ a.title # ""

\* C23: the walk stops at the next top-level heading, so every Job scrape_comsol
\* returns comes from a link of a list before that heading, whatever the elements
\* of the section are (sub-headings without a list of their own included).
C23_SectionBoundary ==
    (call.fn = "scrape_comsol" /\ ret.kind # "none") =>
        LET sibs == call.page.siblings
        IN  \A i \in DOMAIN ret.jobs :
                \E u \in 1..(C23_Stop(sibs) - 1) : C23_Holds(sibs, u, ret.jobs[i])

\* every sub-heading of the section has its list before the next top-level
\* heading and before the next sub-heading
C23_EachHeadingListed(sibs) ==
    \A h \in 1..(C23_Stop(sibs) - 1) :
        sibs[h].name = "h3" =>
            \E u \in (h + 1)..(C23_Stop(sibs) - 1) :
                /\ sibs[u].name = "ul"
                /\ \A m \in (h + 1)..(u - 1) : sibs[m].name # "h3"

\* what the code keeps of C23: the boundary holds on pages where every
\* sub-heading of the section has its list
C23_SectionBoundaryListed ==
    (/\ call.fn = "scrape_comsol"
     /\ ret.kind # "none"
     /\ C23_EachHeadingListed(call.page.siblings)) =>
        LET sibs == call.page.siblings
        IN  \A i \in DOMAIN ret.jobs :
                \E u \in 1..(C23_Stop(sibs) - 1) : C23_Holds(sibs, u, ret.jobs[i])

C23_Witness ==
    /\ call.fn = "scrape_comsol"
    /\ call.page.careers
    /\ Len(call.page.siblings) = 3
    /\ call.page.siblings[1].name = "h3"
    /\ call.page.siblings[2].name = "h2"
    /\ call.page.siblings[3].name = "ul"
    /\ ret.kind = "jobs"
    /\ Len(ret.jobs) = 1
    /\ ret.jobs[1].title = "T1"

\* the sub-heading that immediately precedes position u in the section, 0 for none
C24_HeadingBefore(sibs, u) ==
    IF \E h \in 1..(u - 1) : sibs[h].name = "h3"
    THEN CHOOSE h \in 1..(u - 1) :
            sibs[h].name = "h3" /\ \A m \in (h + 1)..(u - 1) : sibs[m].name # "h3"
    ELSE 0

\* the lists of the section a label applies to: the very next list after a
\* sub-heading
C24_Labelled(sibs) ==
    {u \in 1..(C23_Stop(sibs) - 1) :
        /\ sibs[u].name = "ul"
        /\ C24_HeadingBefore(sibs, u) # 0
        /\ \A m \in (C24_HeadingBefore(sibs, u) + 1)..(u - 1) : sibs[m].name # "ul"}

C24_Attribution(sibs, js) ==
    /\ \A i \in DOMAIN js :
            \E u \in C24_Labelled(sibs) :
                /\ C23_Holds(sibs, u, js[i])
                /\ js[i].location =
                        NormalizeHeadingLocation(sibs[C24_HeadingBefore(sibs, u)].text)
    /\ \A u \in C24_Labelled(sibs) : \A n \in DOMAIN sibs[u].links :
            LET a == sibs[u].links[n]
            IN  (JobHrefId(a.href) # "" /\ a.title # "") =>
                    \E i \in DOMAIN js : js[i].job_id = <<"COMSOL", JobHrefId(a.href)>>

\* C24: every returned Job carries the location parsed from the sub-heading that
\* immediately precedes the list holding its link; a label applies to the very
\* next list only; and no sub-heading of the section is skipped, so the links of
\* every labelled list are returned.
C24_LocationAttribution ==
    (call.fn = "scrape_comsol" /\ ret.kind # "none" /\ call.page.careers) =>
        C24_Attribution(call.page.siblings, ret.jobs)

\* what the code keeps of C24: the attribution holds on pages where every
\* sub-heading of the section has its list
C24_LocationAttributionListed ==
    (/\ call.fn = "scrape_comsol"
     /\ ret.kind # "none"
     /\ call.page.careers
     /\ C23_EachHeadingListed(call.page.siblings)) =>
        C24_Attribution(call.page.siblings, ret.jobs)

C24_Witness ==
    /\ call.fn = "scrape_comsol"
    /\ call.page.careers
    /\ Len(call.page.siblings) = 3
    /\ call.page.siblings[1] = H3(<<"A", ",", "u", "s">>)
    /\ call.page.siblings[2] = H3(<<"B", ",", "b", ",", "U", "K">>)
    /\ call.page.siblings[3].name = "ul"
    /\ ret.kind = "jobs"
    /\ Len(ret.jobs) = 1
    /\ ret.jobs[1].location.city = <<"A">>

(* ------------------------- claims: storage writes ---------------------- *)
C25_UpsertStep ==
    (lastOp'.op = "upsert_jobs" /\ today' = today) =>
        /\ runs' = runs
        /\ \A i \in DOMAIN jobs :
            /\ i \in DOMAIN jobs'
            /\ jobs'[i].job_id = jobs[i].job_id
            /\ jobs'[i].company = jobs[i].company
            /\ jobs'[i].first_seen = jobs[i].first_seen
            /\ jobs[i].job_id \notin lastOp'.ids => jobs'[i] = jobs[i]
        /\ \A i \in DOMAIN jobs' :
            i \notin DOMAIN jobs => jobs'[i].job_id \in lastOp'.ids

C25_RecordStep ==
    (lastOp'.op = "record_run" /\ today' = today) =>
        /\ jobs' = jobs
        /\ \A i \in DOMAIN runs :
            /\ i \in DOMAIN runs'
            /\ ~SameRunKey(runs[i], today, lastOp'.company) => runs'[i] = runs[i]
        /\ \A i \in DOMAIN runs' :
            i \notin DOMAIN runs => SameRunKey(runs'[i], today, lastOp'.company)

\* C25: upsert_jobs leaves job_id, company and first_seen of every stored row as
\* they were (also when the incoming Job names another company), leaves every row
\* whose job_id is not in the batch as it was, adds rows for the batch's job_ids
\* only and leaves the runs table as it was; record_run leaves the jobs table and
\* every runs row of another (run_date, company) as they were.
C25_WriteFrame == [][C25_UpsertStep /\ C25_RecordStep]_vars

C25_Witness ==
    /\ lastOp.op = "upsert_jobs"
    /\ lastOp.other_company
    /\ lastOp.ids = {"j1"}
    /\ Len(runs) = 2
    /\ \E i, k \in DOMAIN jobs :
        /\ jobs[i].job_id = "j1"
        /\ jobs[i].company = "MathWorks"
        /\ jobs[i].title = 2
        /\ jobs[i].first_seen < jobs[i].last_seen
        /\ jobs[i].last_seen = today
        /\ jobs[k].job_id = "j2"
        /\ jobs[k].last_seen < today

=============================================================================
